---- MODULE Spec2Model ----
(***************************************************************************)
(* Model of the practice-math chat worker: the chat handler               *)
(* (worker/handlers/chat.js), the upstream streaming decoder              *)
(* (worker/lib/claude.js) and the storage helpers (worker/lib/db.js).     *)
(*                                                                         *)
(* Text is a sequence of one-character strings.  Bytes on a wire are      *)
(* modelled as tokens: "data: ", "{", "}", an event-type word, one        *)
(* (escaped) character of a JSON string, or the line feed "\n".            *)
(***************************************************************************)
EXTENDS Integers, Sequences, FiniteSets, TLC

\* ------------------------------------------------------------------ bounds

\* Largest number of complete lines in an upstream body.
MaxLines == 3

\* ------------------------------------------------------- program constants

MAX_HISTORY == 50
MAX_MESSAGE_LENGTH == 5000

\* `new ReadableStream({ start })` without a queuing strategy: the default
\* strategy asks for one chunk at a time.
HighWaterMark == 1

\* ------------------------------------------------------------ identifiers

Reqs == {"r1", "r2"}
Users == {"u1", "u2"}

\* ------------------------------------------------------------ text helpers

Last(s) == s[Len(s)]
Front(s) == SubSeq(s, 1, Len(s) - 1)

RECURSIVE Concat(_)
Concat(ss) == IF ss = <<>> THEN <<>> ELSE Head(ss) \o Concat(Tail(ss))

\* String.prototype.startsWith on token sequences.
StartsWith(s, p) == Len(s) >= Len(p) /\ SubSeq(s, 1, Len(p)) = p

\* String.prototype.split('\n'): k separators give k+1 pieces.
RECURSIVE Split(_)
Split(s) ==
  IF \A i \in 1..Len(s) : s[i] # "\n"
  THEN <<s>>
  ELSE LET k == CHOOSE i \in 1..Len(s) :
                  s[i] = "\n" /\ \A j \in 1..(i - 1) : s[j] # "\n"
       IN <<SubSeq(s, 1, k - 1)>> \o Split(SubSeq(s, k + 1, Len(s)))

\* The text of a chat message is kept run-length encoded: a sequence of
\* runs, each a character and the number of times it repeats (adjacent runs
\* differ in their character).
Run(c, n) == [ch |-> c, n |-> n]

\* String.prototype.length
RECURSIVE StrLen(_)
StrLen(s) == IF s = <<>> THEN 0 ELSE Head(s).n + StrLen(Tail(s))

\* String.prototype.trim: drop leading and trailing blanks.
Trim(s) ==
  LET keep == {i \in 1..Len(s) : s[i].ch # " "}
  IN IF keep = {} THEN <<>>
     ELSE LET lo == CHOOSE i \in keep : \A j \in keep : i <= j
              hi == CHOOSE i \in keep : \A j \in keep : j <= i
          IN SubSeq(s, lo, hi)

\* ------------------------------------------------------------------- JSON

\* JSON.stringify of a string's characters: a line feed inside a string is
\* written as the two-character escape, every other character as itself.
EscapeCharRaw(c) == c
EscapeChar(c) == IF c = "\n" THEN "\\n" ELSE c
UnescapeChar(c) == IF c = "\\n" THEN "\n" ELSE c
Escape(t) == [i \in 1..Len(t) |-> EscapeChar(t[i])]
Unescape(t) == [i \in 1..Len(t) |-> UnescapeChar(t[i])]

\* Structural tokens of the wire; everything else is a string character.
Structural == {"{", "}", "\n", "data: ", "event: ", "[DONE]"}

\* An event object {type, <payload>} where the payload is the one string
\* field the code reads (delta.text, text, fullText or error).
Event(ty, tx) == [type |-> ty, text |-> tx]

\* JSON.stringify(event).
JsonStringify(ev) == <<"{", ev.type>> \o Escape(ev.text) \o <<"}">>

\* JSON.parse(data): ok = FALSE stands for the SyntaxError it throws.
ParseFail == [ok |-> FALSE, type |-> "", text |-> <<>>]
JsonParse(d) ==
  IF /\ Len(d) >= 3
     /\ d[1] = "{"
     /\ d[Len(d)] = "}"
     /\ \A i \in 2..(Len(d) - 1) : d[i] \notin Structural
  THEN [ok |-> TRUE, type |-> d[2], text |-> Unescape(SubSeq(d, 3, Len(d) - 1))]
  ELSE ParseFail

\* `data: ${JSON.stringify(frame)}\n\n`, the outbound frame encoding.
EncodeFrame(ev) == <<"data: ">> \o JsonStringify(ev) \o <<"\n", "\n">>

DeltaFrame(t) == Event("delta", t)
DoneFrame(t) == Event("done", t)
ErrorFrame(t) == Event("error", t)

\* ------------------------------------------------- upstream event decoder

\* fullText += event.delta.text
AccumulateOverwrite(ft, t) == t
Accumulate(ft, t) == ft \o t

\* buffer = lines.pop(): the last, possibly incomplete, piece is kept.
CarryNothing(lines) == <<>>
Carry(lines) == Last(lines)

\* One iteration of `for (const line of lines)` in streamChatResponse:
\* the accumulator after the line and the frames it enqueues.
ProcessLine(line, ft) ==
  IF ~StartsWith(line, <<"data: ">>)
  THEN [fullText |-> ft, out |-> <<>>]
  ELSE LET data == SubSeq(line, 2, Len(line))
           ev == JsonParse(data)
           isDelta == ev.ok /\ ev.type = "content_block_delta" /\ ev.text # <<>>
           ft1 == IF isDelta THEN Accumulate(ft, ev.text) ELSE ft
       IN IF data = <<"[DONE]">> \/ ~ev.ok
          THEN [fullText |-> ft, out |-> <<>>]
          ELSE [fullText |-> ft1,
                out |-> (IF isDelta THEN <<DeltaFrame(ev.text)>> ELSE <<>>)
                        \o (IF ev.type = "message_stop"
                            THEN <<DoneFrame(ft1)>> ELSE <<>>)]

RECURSIVE ProcessLinesUntilMalformed(_, _)
ProcessLinesUntilMalformed(lines, ft) ==
  IF lines = <<>>
     \/ ( /\ StartsWith(Head(lines), <<"data: ">>)
          /\ SubSeq(Head(lines), 2, Len(Head(lines))) # <<"[DONE]">>
          /\ ~JsonParse(SubSeq(Head(lines), 2, Len(Head(lines)))).ok )
  THEN [fullText |-> ft, out |-> <<>>]
  ELSE LET one == ProcessLine(Head(lines), ft)
           rest == ProcessLinesUntilMalformed(Tail(lines), one.fullText)
       IN [fullText |-> rest.fullText, out |-> one.out \o rest.out]

RECURSIVE ProcessLines(_, _)
ProcessLines(lines, ft) ==
  IF lines = <<>>
  THEN [fullText |-> ft, out |-> <<>>]
  ELSE LET one == ProcessLine(Head(lines), ft)
           rest == ProcessLines(Tail(lines), one.fullText)
       IN [fullText |-> rest.fullText, out |-> one.out \o rest.out]

\* The body of `while (true)` after a read returned `chunk`.
DecodeChunk(buf, ft, chunk) ==
  LET lines == Split(buf \o chunk)
      done == ProcessLines(Front(lines), ft)
  IN [buffer |-> Carry(lines), fullText |-> done.fullText, out |-> done.out]

\* The lines an upstream body can hold (without their line feed).
DeltaLine(t) == <<"data: ">> \o JsonStringify(Event("content_block_delta", t))
StopLine == <<"data: ">> \o JsonStringify(Event("message_stop", <<>>))
PingLine == <<"data: ">> \o JsonStringify(Event("ping", <<>>))
MalformedLine == <<"data: ", "{", "content_block_delta", "a">>
EventNameLine == <<"event: ", "x">>

LineKinds ==
  { DeltaLine(<<"a">>), DeltaLine(<<"b", "\n">>), DeltaLine(<<>>),
    StopLine, PingLine, MalformedLine, EventNameLine }

\* The lines for which the decoder enqueues nothing.
SilentLines == { DeltaLine(<<>>), PingLine, MalformedLine, EventNameLine }

Terminated(lines) == Concat([i \in 1..Len(lines) |-> lines[i] \o <<"\n">>])

\* Up to MaxLines lines, at most one of them silent.
LineSeqs ==
  { ls \in UNION { [1..n -> LineKinds] : n \in 0..MaxLines } :
      \A i, j \in DOMAIN ls :
        (ls[i] \in SilentLines /\ ls[j] \in SilentLines) => i = j }

\* Bodies: the lines, each with its line feed, or with the line feed of a
\* last delta line missing (the body ends inside the line).
UpstreamBodies ==
  { Terminated(ls) : ls \in LineSeqs }
  \cup { Terminated(Front(ls)) \o Last(ls) :
           ls \in { x \in LineSeqs : x # <<>> /\ Last(x) = DeltaLine(<<"a">>) } }

ErrorBodies == { <<"o">>, <<"o", "\n">> }

\* err.message of a rejected fetch or read.
FaultMessage == <<"f">>

\* ----------------------------------------------------------------- storage

ConvRow(id, u, active) == [id |-> id, user_id |-> u, is_active |-> active]
MsgRow(id, cid, role, content) ==
  [id |-> id, conversation_id |-> cid, role |-> role, content |-> content]

NoConv == 0

\* SELECT * FROM conversations WHERE user_id = ? AND is_active = 1
\* ORDER BY id DESC LIMIT 1   (NoConv for no row)
SelectActiveConversation(convs, u) ==
  LET mine == {c \in convs : c.user_id = u /\ c.is_active}
  IN IF mine = {} THEN NoConv
     ELSE (CHOOSE c \in mine : \A d \in mine : d.id <= c.id).id

\* SELECT role, content FROM messages WHERE conversation_id = ?
\* ORDER BY id ASC LIMIT ?      (msgs is kept in id order)
getMessagesUnlimited(msgs, cid, limit) ==
  LET rows == SelectSeq(msgs, LAMBDA m : m.conversation_id = cid)
  IN [i \in 1..Len(rows) |-> [role |-> rows[i].role, content |-> rows[i].content]]
getMessages(msgs, cid, limit) ==
  LET rows == SelectSeq(msgs, LAMBDA m : m.conversation_id = cid)
      n == IF Len(rows) < limit THEN Len(rows) ELSE limit
  IN [i \in 1..n |-> [role |-> rows[i].role, content |-> rows[i].content]]

\* history.slice(0, -1)
DropLast(h) == IF h = <<>> THEN <<>> ELSE Front(h)

NoImage == "none"

buildMessagesReplayingImage(history, newMessage, imageData) ==
  [i \in 1..Len(history) |->
      [role |-> history[i].role, content |-> history[i].content, image |-> imageData]]
  \o <<[role |-> "user", content |-> newMessage, image |-> imageData]>>

\* buildMessages(history, newMessage, imageData)
buildMessages(history, newMessage, imageData) ==
  [i \in 1..Len(history) |->
      [role |-> history[i].role, content |-> history[i].content, image |-> NoImage]]
  \o <<[role |-> "user", content |-> newMessage, image |-> imageData]>>

\* ---------------------------------------------------------- request bodies

\* A JSON value in the `content` field: t is its JavaScript type, s the
\* runs of a string, v the value of a number.
StrVal(s) == [t |-> "string", s |-> s, v |-> 0]
NumVal(v) == [t |-> "number", s |-> <<>>, v |-> v]
NullVal == [t |-> "null", s |-> <<>>, v |-> 0]
ArrVal == [t |-> "array", s |-> <<>>, v |-> 0]

\* !content
Falsy(c) ==
  \/ c.t = "null"
  \/ c.t = "string" /\ c.s = <<>>
  \/ c.t = "number" /\ c.v = 0

\* `content?.slice(0, 100)` in the log line: the optional chain stops only
\* on null/undefined; any other value without a slice method makes the call
\* throw a TypeError.
LogLineThrows(c) == c.t \notin {"null", "string", "array"}

ValidateWithoutKeyCheck(b, key) ==
  IF ~b.json \/ LogLineThrows(b.content) THEN "throw"
  ELSE IF Falsy(b.content) \/ b.content.t # "string" \/ StrLen(Trim(b.content.s)) = 0
  THEN "required"
  ELSE IF StrLen(b.content.s) > MAX_MESSAGE_LENGTH THEN "too_long"
  ELSE "accept"

\* The outcome of the checks that open handleChatMessage.
Validate(b, key) ==
  IF ~b.json \/ LogLineThrows(b.content) THEN "throw"
  ELSE IF Falsy(b.content) \/ b.content.t # "string" \/ StrLen(Trim(b.content.s)) = 0
  THEN "required"
  ELSE IF StrLen(b.content.s) > MAX_MESSAGE_LENGTH THEN "too_long"
  ELSE IF key = "" THEN "no_key"
  ELSE "accept"

NoResponse == [status |-> 0, kind |-> "none", error |-> ""]
StreamResponse == [status |-> 200, kind |-> "stream", error |-> ""]
\* jsonResponse({ error }, status)
JsonError(status, error) == [status |-> status, kind |-> "json", error |-> error]
\* The catch of the worker's fetch entry point.
InternalError == JsonError(500, "Internal server error")

ResponseFor(outcome) ==
  CASE outcome = "required" -> JsonError(400, "Message content is required")
    [] outcome = "too_long" -> JsonError(400, "Message too long")
    [] outcome = "no_key" -> JsonError(500, "API key not configured")
    [] OTHER -> InternalError

Body(json, c, img) == [json |-> json, content |-> c, imageData |-> img]

TypicalBody == Body(TRUE, StrVal(<<Run(" ", 1), Run("q", 2), Run(" ", 1)>>), NoImage)

BodyInputs ==
  { TypicalBody,
    Body(TRUE, StrVal(<<Run("q", 1)>>), "image/png"),
    Body(TRUE, StrVal(<<Run("q", MAX_MESSAGE_LENGTH)>>), NoImage),
    Body(TRUE, StrVal(<<Run("q", MAX_MESSAGE_LENGTH + 1)>>), NoImage),
    Body(TRUE, StrVal(<<Run(" ", MAX_MESSAGE_LENGTH), Run("q", 1)>>), NoImage),
    Body(TRUE, StrVal(<<>>), NoImage),
    Body(TRUE, StrVal(<<Run(" ", 2)>>), NoImage),
    Body(TRUE, NullVal, NoImage),
    Body(TRUE, NumVal(0), NoImage),
    Body(TRUE, NumVal(7), NoImage),
    Body(TRUE, ArrVal, NoImage),
    Body(FALSE, NullVal, NoImage) }

\* ------------------------------------------------------------------ state

VARIABLES
  users,          \* rows of table users
  credentials,    \* rows of table passkey_credentials
  nextUserId,     \* AUTOINCREMENT of users
  challenges,     \* KV namespace SESSIONS, keys challenge:<id>
  authBody,       \* [Reqs -> body]: the JSON body of an auth request
  credential,     \* [Reqs -> row]: the credential row handleLoginVerify read
  stored,         \* [Reqs -> entry]: the challenge entry a verification read
  verification,   \* [Reqs -> outcome]: what the WebAuthn library returned
  webauthnOrigin, \* env.WEBAUTHN_ORIGIN ("" when not configured)
  sessions,       \* KV namespace SESSIONS: token -> userId of the session
  method,         \* [Reqs -> method]: request.method
  origin,         \* [Reqs -> origin]: the Origin header ("" when absent)
  cookie,         \* [Reqs -> token]: the session cookie ("" when absent)
  handler,        \* [Reqs -> name]: the handler the router called
  apiKey,         \* env.ANTHROPIC_API_KEY ("" when not configured)
  conversations,  \* rows of table conversations
  messages,       \* rows of table messages, in id order
  nextConvId,     \* AUTOINCREMENT of conversations
  nextMsgId,      \* AUTOINCREMENT of messages
  user,           \* [Reqs -> Users]: session.userId of the request
  body,           \* [Reqs -> body]: the request's JSON body
  route,          \* [Reqs -> route]: the handler the router dispatches to
  pc,             \* handleChatMessage: the await the request is at
  conv,           \* conversation.id held by the handler
  upMessages,     \* the message list given to streamChatResponse
  fetchedHistory, \* `history`: the rows getMessages returned to the handler
  calls,          \* number of upstream fetches issued
  resp,           \* the HTTP response returned
  spc,            \* streamChatResponse.start: the await it is at
  upOutcome,      \* what the upstream did so far
  upBody,         \* tokens of the body the upstream sends with a 200
  upErr,          \* body of a non-success upstream answer
  upos,           \* tokens of upBody read so far
  buffer,         \* `buffer` of streamChatResponse
  fullText,       \* `fullText` of streamChatResponse
  queue,          \* chunks enqueued on the controller, not yet read
  emitted,        \* every frame enqueued so far
  rpc,            \* processStream: the await it is at
  cur,            \* `value` of the relay loop
  pending,        \* done texts of `value` still to be stored
  delivered,      \* chunks the client accepted
  clientGone,     \* the client cancelled the response body
  wrote,          \* ids of the message rows the request inserted
  created,        \* ids of the conversation rows the request inserted
  dbFault         \* a storage statement of the request failed

dbVars == <<conversations, messages, nextConvId, nextMsgId>>
handlerVars == <<pc, conv, upMessages, fetchedHistory, calls, resp>>
producerVars == <<spc, upOutcome, upBody, upErr, upos, buffer, fullText, queue, emitted>>
relayVars == <<rpc, cur, pending, delivered>>
routerVars == <<webauthnOrigin, sessions, method, origin, cookie, handler>>
authVars == <<users, credentials, nextUserId, challenges, authBody, credential,
              stored, verification>>
vars == <<authVars, routerVars, apiKey, user, body, route, dbVars, handlerVars, producerVars, relayVars,
          clientGone, wrote, created, dbFault>>

\* A conversation of an earlier turn, as Init may hold.
PriorMessages ==
  << MsgRow(1, 1, "user", <<Run("p", 1)>>), MsgRow(2, 1, "assistant", <<"a">>) >>

InitDb ==
  \/ /\ conversations = {}
     /\ messages = <<>>
     /\ nextConvId = 1
     /\ nextMsgId = 1
  \/ /\ conversations = {ConvRow(1, "u1", TRUE)}
     /\ messages = PriorMessages
     /\ nextConvId = 2
     /\ nextMsgId = 3

\* A few upstream bodies: a reply with its stop signal, a reply cut short,
\* an empty body.
FewBodies ==
  { Terminated(<<DeltaLine(<<"a">>), StopLine>>),
    Terminated(<<DeltaLine(<<"a">>)>>) \o DeltaLine(<<"a">>),
    <<>> }

\* A request before its handler has done anything.
InitRequestState ==
  /\ conv = [r \in Reqs |-> NoConv]
  /\ upMessages = [r \in Reqs |-> <<>>]
  /\ fetchedHistory = [r \in Reqs |-> <<>>]
  /\ calls = [r \in Reqs |-> 0]
  /\ resp = [r \in Reqs |-> NoResponse]
  /\ spc = [r \in Reqs |-> "none"]
  /\ upOutcome = [r \in Reqs |-> "none"]
  /\ upErr = [r \in Reqs |-> <<>>]
  /\ upos = [r \in Reqs |-> 0]
  /\ buffer = [r \in Reqs |-> <<>>]
  /\ fullText = [r \in Reqs |-> <<>>]
  /\ queue = [r \in Reqs |-> <<>>]
  /\ emitted = [r \in Reqs |-> <<>>]
  /\ rpc = [r \in Reqs |-> "none"]
  /\ cur = [r \in Reqs |-> <<>>]
  /\ pending = [r \in Reqs |-> <<>>]
  /\ delivered = [r \in Reqs |-> <<>>]
  /\ clientGone = [r \in Reqs |-> FALSE]
  /\ wrote = [r \in Reqs |-> {}]
  /\ created = [r \in Reqs |-> {}]
  /\ dbFault = [r \in Reqs |-> FALSE]

\* Rows of users and of passkey_credentials (the columns the handlers use).
UserRow(id, username) == [id |-> id, username |-> username]
CredRow(uid, cid, counter) ==
  [user_id |-> uid, credential_id |-> cid, counter |-> counter]

\* Two registered users, each with one passkey.
RegisteredUsers == {UserRow("u1", "ann"), UserRow("u2", "bob")}
RegisteredCredentials == {CredRow("u1", "k1", 0), CredRow("u2", "k2", 0)}

\* The id AUTOINCREMENT gives the n-th user row.
UserIdOf(n) == <<"u1", "u2", "u3", "u4">>[n]

\* The browser's attestation or assertion: the credential id it names, the
\* challenge it signed, whether its signature is that of the credential's
\* key, and its signature counter; given = FALSE for a missing field.
Assertion(id, challenge, genuine, counter) ==
  [given |-> TRUE, id |-> id, challenge |-> challenge, genuine |-> genuine,
   counter |-> counter]
NoAssertion ==
  [given |-> FALSE, id |-> "", challenge |-> "", genuine |-> FALSE, counter |-> 0]

\* The JSON body of an auth request ("" for a missing field).
AuthBody(username, challengeId, response, userId) ==
  [username |-> username, challengeId |-> challengeId, response |-> response,
   userId |-> userId]
NoAuthBody == AuthBody("", "", NoAssertion, "")

\* A challenge entry of the KV store; username is "" for a login challenge.
ChallengeEntry(challenge, username) ==
  [challenge |-> challenge, username |-> username]
NoEntry == ChallengeEntry("", "")
NoCredential == CredRow("", "", 0)

\* The locals of the auth handlers before they ran.
AuthLocals ==
  /\ credential = [r \in Reqs |-> NoCredential]
  /\ stored = [r \in Reqs |-> NoEntry]
  /\ verification = [r \in Reqs |-> "none"]

\* No auth request is in flight and no challenge is outstanding.
AuthIdle ==
  /\ users = RegisteredUsers
  /\ credentials = RegisteredCredentials
  /\ nextUserId = 3
  /\ challenges = [c \in {} |-> NoEntry]
  /\ authBody = [r \in Reqs |-> NoAuthBody]
  /\ AuthLocals

\* 'http://localhost:5173' of the router's allowlist.
LocalOrigin == "http://localhost:5173"

\* Session tokens: t1 and t2 were issued to u1 and u2, tx was never issued.
Tokens == {"t1", "t2", "tx"}
IssuedSessions == [t \in {"t1", "t2"} |-> IF t = "t1" THEN "u1" ELSE "u2"]
TokenOf(u) == IF u = "u1" THEN "t1" ELSE "t2"

\* The request passed the router: its cookie names the session of its
\* user, its Origin is allowed, and the handler of its route was called.
Routed(arriving) ==
  /\ AuthIdle
  /\ webauthnOrigin = ""
  /\ sessions = IssuedSessions
  /\ method = [r \in Reqs |-> IF route[r] = "history" THEN "GET" ELSE "POST"]
  /\ origin = [r \in Reqs |-> LocalOrigin]
  /\ cookie = [r \in Reqs |-> TokenOf(user[r])]
  /\ handler = [r \in Reqs |-> IF r \in arriving THEN route[r] ELSE "none"]

InitRequests(arriving) ==
  /\ pc = [r \in Reqs |-> IF r \in arriving THEN "recv" ELSE "off"]
  /\ Routed(arriving)
  /\ InitRequestState


\* One chat request of user u1 arrives.  Every request body, key setting
\* and initial storage is tried against the few upstream bodies; every
\* upstream body is tried against the typical request on empty storage.
Init ==
  /\ apiKey \in {"", "sk"}
  /\ user = [r \in Reqs |-> "u1"]
  /\ route = [r \in Reqs |-> "message"]
  /\ \E b \in BodyInputs : body = [r \in Reqs |-> b]
  /\ InitDb
  /\ \E u \in UpstreamBodies : upBody = [r \in Reqs |-> u]
  /\ \/ upBody["r1"] \in FewBodies
     \/ body["r1"] = TypicalBody /\ apiKey = "sk" /\ conversations = {}
  /\ InitRequests({"r1"})

\* ------------------------------------------------------ handleChatMessage

Set(f, r, v) == [f EXCEPT ![r] = v]

\* INSERT INTO messages: the foreign key needs the conversation row.
CanInsertMessage(cid) == \E c \in conversations : c.id = cid

\* Lines 32-52: parse the body, validate, check the API key.
Receive(r) ==
  /\ pc[r] = "recv"
  /\ route[r] = "message"
  /\ LET outcome == Validate(body[r], apiKey)
     IN IF outcome = "accept"
        THEN /\ pc' = Set(pc, r, "getConv")
             /\ resp' = resp
        ELSE /\ pc' = Set(pc, r, "done")
             /\ resp' = Set(resp, r, ResponseFor(outcome))
  /\ UNCHANGED <<authVars, routerVars, apiKey, user, body, route, dbVars, conv, upMessages, fetchedHistory, calls,
                 producerVars, relayVars, clientGone, wrote, dbFault, created>>

\* getOrCreateConversation, the SELECT (db.js 73-76).
GetConversation(r) ==
  /\ pc[r] = "getConv"
  /\ LET c == SelectActiveConversation(conversations, user[r])
     IN IF c = NoConv
        THEN /\ pc' = Set(pc, r, "insertConv")
             /\ conv' = conv
        ELSE /\ pc' = Set(pc, r, "addUser")
             /\ conv' = Set(conv, r, c)
  /\ UNCHANGED <<authVars, routerVars, apiKey, user, body, route, dbVars, upMessages, fetchedHistory, calls, resp,
                 producerVars, relayVars, clientGone, wrote, dbFault, created>>

\* getOrCreateConversation, the INSERT (db.js 78-83).
InsertConversation(r) ==
  /\ pc[r] = "insertConv"
  /\ conversations' = conversations \cup {ConvRow(nextConvId, user[r], TRUE)}
  /\ nextConvId' = nextConvId + 1
  /\ conv' = Set(conv, r, nextConvId)
  /\ created' = Set(created, r, created[r] \cup {nextConvId})
  /\ pc' = Set(pc, r, "addUser")
  /\ UNCHANGED <<authVars, routerVars, apiKey, user, body, route, messages, nextMsgId, upMessages, fetchedHistory, calls, resp,
                 producerVars, relayVars, clientGone, wrote, dbFault>>

AddUserMessageAfterStream(r) ==
  /\ pc[r] = "addUser"
  /\ pc' = Set(pc, r, "getMessages")
  /\ UNCHANGED <<authVars, routerVars, apiKey, user, body, route, dbVars, conv, upMessages, fetchedHistory, calls, resp,
                 producerVars, relayVars, clientGone, wrote, dbFault, created>>

\* await addMessage(env.DB, conversation.id, 'user', content.trim())
AddUserMessage(r) ==
  /\ pc[r] = "addUser"
  /\ CanInsertMessage(conv[r])
  /\ messages' = Append(messages,
                        MsgRow(nextMsgId, conv[r], "user", Trim(body[r].content.s)))
  /\ nextMsgId' = nextMsgId + 1
  /\ wrote' = Set(wrote, r, wrote[r] \cup {nextMsgId})
  /\ pc' = Set(pc, r, "getMessages")
  /\ UNCHANGED <<authVars, routerVars, apiKey, user, body, route, conversations, nextConvId, conv, upMessages, fetchedHistory,
                 calls, resp, producerVars, relayVars, clientGone, dbFault, created>>

\* Lines 62-125: fetch the history, build the message list, construct the
\* stream (its start() issues the upstream fetch), start processStream and
\* return the streaming response.
StartStream(r) ==
  /\ pc[r] = "getMessages"
  /\ LET rows == getMessages(messages, conv[r], MAX_HISTORY)
     IN /\ fetchedHistory' = Set(fetchedHistory, r, rows)
        /\ upMessages' = Set(upMessages, r,
             buildMessages(DropLast(rows), Trim(body[r].content.s),
                           body[r].imageData))
  /\ calls' = Set(calls, r, calls[r] + 1)
  /\ spc' = Set(spc, r, "fetch")
  /\ rpc' = Set(rpc, r, "read")
  /\ resp' = Set(resp, r, StreamResponse)
  /\ pc' = Set(pc, r, "done")
  /\ UNCHANGED <<authVars, routerVars, apiKey, user, body, route, dbVars, conv, upOutcome, upBody, upErr, upos,
                 buffer, fullText, queue, emitted, cur, pending, delivered,
                 clientGone, wrote, dbFault, created>>

\* A storage statement of the handler rejects: the handler throws and the
\* worker's catch answers 500 (index.js 36-42).
HandlerDbFault(r) ==
  /\ pc[r] \in {"getConv", "insertConv", "addUser", "getMessages"}
  /\ dbFault' = Set(dbFault, r, TRUE)
  /\ resp' = Set(resp, r, InternalError)
  /\ pc' = Set(pc, r, "done")
  /\ UNCHANGED <<authVars, routerVars, apiKey, user, body, route, dbVars, conv, upMessages, fetchedHistory, calls,
                 producerVars, relayVars, clientGone, wrote, created>>

\* ----------------------------------------------------- streamChatResponse

Encoded(frames) == [i \in 1..Len(frames) |-> EncodeFrame(frames[i])]

\* controller.enqueue of each frame, then the next await or controller.close().
Enqueue(r, frames, next, outcome) ==
  /\ queue' = Set(queue, r, queue[r] \o Encoded(frames))
  /\ emitted' = Set(emitted, r, emitted[r] \o frames)
  /\ spc' = Set(spc, r, next)
  /\ upOutcome' = Set(upOutcome, r, outcome)

FetchThrowsThenRetries(r) ==
  /\ spc[r] = "fetch"
  /\ calls[r] < 2
  /\ calls' = Set(calls, r, calls[r] + 1)
  /\ upOutcome' = Set(upOutcome, r, "fetch_fault")
  /\ UNCHANGED <<authVars, routerVars, apiKey, user, body, route, dbVars, pc, conv, upMessages,
                 fetchedHistory, resp, spc, upBody, upErr, upos, buffer, fullText,
                 queue, emitted, relayVars, clientGone, wrote, dbFault, created>>

\* fetch() rejects (lines 106, 186-192).
FetchThrows(r) ==
  /\ spc[r] = "fetch"
  /\ Enqueue(r, <<ErrorFrame(FaultMessage)>>, "closed", "fetch_fault")
  /\ UNCHANGED <<authVars, routerVars, apiKey, user, body, route, dbVars, handlerVars, upBody, upErr, upos,
                 buffer, fullText, relayVars, clientGone, wrote, dbFault, created>>

\* fetch() resolves with !response.ok (line 122).
FetchNotOk(r) ==
  /\ spc[r] = "fetch"
  /\ \E e \in ErrorBodies : upErr' = Set(upErr, r, e)
  /\ spc' = Set(spc, r, "errbody")
  /\ upOutcome' = Set(upOutcome, r, "status")
  /\ UNCHANGED <<authVars, routerVars, apiKey, user, body, route, dbVars, handlerVars, upBody, upos,
                 buffer, fullText, queue, emitted, relayVars, clientGone, wrote,
                 dbFault, created>>

\* await response.text() resolves (lines 123-128).
ErrorBodyRead(r) ==
  /\ spc[r] = "errbody"
  /\ Enqueue(r, <<ErrorFrame(upErr[r])>>, "closed", "status_body")
  /\ UNCHANGED <<authVars, routerVars, apiKey, user, body, route, dbVars, handlerVars, upBody, upErr, upos,
                 buffer, fullText, relayVars, clientGone, wrote, dbFault, created>>

\* await response.text() rejects (lines 123, 186-192).
ErrorBodyThrows(r) ==
  /\ spc[r] = "errbody"
  /\ Enqueue(r, <<ErrorFrame(FaultMessage)>>, "closed", "status_fault")
  /\ UNCHANGED <<authVars, routerVars, apiKey, user, body, route, dbVars, handlerVars, upBody, upErr, upos,
                 buffer, fullText, relayVars, clientGone, wrote, dbFault, created>>

\* fetch() resolves with response.ok (line 131).
FetchOk(r) ==
  /\ spc[r] = "fetch"
  /\ spc' = Set(spc, r, "read")
  /\ upOutcome' = Set(upOutcome, r, "ok")
  /\ UNCHANGED <<authVars, routerVars, apiKey, user, body, route, dbVars, handlerVars, upBody, upErr, upos,
                 buffer, fullText, queue, emitted, relayVars, clientGone, wrote,
                 dbFault, created>>

UpstreamReadSharedAccumulator(r) ==
  /\ spc[r] = "read"
  /\ \E n \in 1..(Len(upBody[r]) - upos[r]) :
       LET chunk == SubSeq(upBody[r], upos[r] + 1, upos[r] + n)
           shared == Concat([i \in 1..2 |-> fullText[IF i = 1 THEN "r1" ELSE "r2"]])
           d == DecodeChunk(buffer[r], shared, chunk)
       IN /\ upos' = Set(upos, r, upos[r] + n)
          /\ buffer' = Set(buffer, r, d.buffer)
          /\ fullText' = Set(fullText, r, d.fullText)
          /\ Enqueue(r, d.out, "read", "ok")
  /\ UNCHANGED <<authVars, routerVars, apiKey, user, body, route, dbVars, handlerVars, upBody, upErr,
                 relayVars, clientGone, wrote, dbFault, created>>

\* reader.read() returns the next n tokens of the body (lines 137-177).
UpstreamRead(r) ==
  /\ spc[r] = "read"
  /\ \E n \in 1..(Len(upBody[r]) - upos[r]) :
       LET chunk == SubSeq(upBody[r], upos[r] + 1, upos[r] + n)
           d == DecodeChunk(buffer[r], fullText[r], chunk)
       IN /\ upos' = Set(upos, r, upos[r] + n)
          /\ buffer' = Set(buffer, r, d.buffer)
          /\ fullText' = Set(fullText, r, d.fullText)
          /\ Enqueue(r, d.out, "read", "ok")
  /\ UNCHANGED <<authVars, routerVars, apiKey, user, body, route, dbVars, handlerVars, upBody, upErr,
                 relayVars, clientGone, wrote, dbFault, created>>

UpstreamEndSilent(r) ==
  /\ spc[r] = "read"
  /\ upos[r] = Len(upBody[r])
  /\ Enqueue(r, <<>>, "closed", "eof")
  /\ UNCHANGED <<authVars, routerVars, apiKey, user, body, route, dbVars, handlerVars, upBody, upErr, upos,
                 buffer, fullText, relayVars, clientGone, wrote, dbFault, created>>

UpstreamEndFlushingBuffer(r) ==
  /\ spc[r] = "read"
  /\ upos[r] = Len(upBody[r])
  /\ LET last == ProcessLine(buffer[r], fullText[r])
     IN /\ Enqueue(r, last.out \o <<DoneFrame(last.fullText)>>, "closed", "eof")
        /\ fullText' = Set(fullText, r, last.fullText)
  /\ UNCHANGED <<authVars, routerVars, apiKey, user, body, route, dbVars, handlerVars, upBody, upErr, upos,
                 buffer, relayVars, clientGone, wrote, dbFault, created>>

\* reader.read() returns done (lines 138, 179-185).
UpstreamEnd(r) ==
  /\ spc[r] = "read"
  /\ upos[r] = Len(upBody[r])
  /\ Enqueue(r, <<DoneFrame(fullText[r])>>, "closed", "eof")
  /\ UNCHANGED <<authVars, routerVars, apiKey, user, body, route, dbVars, handlerVars, upBody, upErr, upos,
                 buffer, fullText, relayVars, clientGone, wrote, dbFault, created>>

UpstreamReadThrowsSilently(r) ==
  /\ spc[r] = "read"
  /\ Enqueue(r, <<>>, "closed", "read_fault")
  /\ UNCHANGED <<authVars, routerVars, apiKey, user, body, route, dbVars, handlerVars, upBody, upErr, upos,
                 buffer, fullText, relayVars, clientGone, wrote, dbFault, created>>

\* reader.read() rejects (lines 137, 186-192).
UpstreamReadThrows(r) ==
  /\ spc[r] = "read"
  /\ Enqueue(r, <<ErrorFrame(FaultMessage)>>, "closed", "read_fault")
  /\ UNCHANGED <<authVars, routerVars, apiKey, user, body, route, dbVars, handlerVars, upBody, upErr, upos,
                 buffer, fullText, relayVars, clientGone, wrote, dbFault, created>>

\* ---------------------------------------------------------- processStream

\* The test of line 97: event.type === 'done' && event.fullText
IsStorableDoneEvenEmpty(ev) == ev.ok /\ ev.type = "done"

\* Lines 96-97: event.type === 'done' && event.fullText.
IsStorableDone(ev) == ev.ok /\ ev.type = "done" /\ ev.text # <<>>

\* Lines 91-106 on one chunk: the fullText of every line that is a done
\* event with non-empty text, in order (each is stored by addMessage).
RECURSIVE CapturedOf(_)
CapturedOf(lines) ==
  IF lines = <<>> THEN <<>>
  ELSE LET line == Head(lines)
           ev == IF StartsWith(line, <<"data: ">>)
                 THEN JsonParse(SubSeq(line, 2, Len(line)))
                 ELSE ParseFail
       IN (IF IsStorableDone(ev) THEN <<ev.text>> ELSE <<>>)
          \o CapturedOf(Tail(lines))

Captured(chunk) == CapturedOf(Split(chunk))

RelayReadDuringStore(r) ==
  /\ rpc[r] \in {"read", "store"}
  /\ queue[r] # <<>>
  /\ cur' = Set(cur, r, Head(queue[r]))
  /\ queue' = Set(queue, r, Tail(queue[r]))
  /\ rpc' = Set(rpc, r, "write")
  /\ UNCHANGED <<authVars, routerVars, apiKey, user, body, route, dbVars, handlerVars, spc, upOutcome, upBody,
                 upErr, upos, buffer, fullText, emitted, pending, delivered,
                 clientGone, wrote, dbFault, created>>

\* reader.read() returns the next enqueued chunk (line 84).
RelayRead(r) ==
  /\ rpc[r] = "read"
  /\ queue[r] # <<>>
  /\ cur' = Set(cur, r, Head(queue[r]))
  /\ queue' = Set(queue, r, Tail(queue[r]))
  /\ rpc' = Set(rpc, r, "write")
  /\ UNCHANGED <<authVars, routerVars, apiKey, user, body, route, dbVars, handlerVars, spc, upOutcome, upBody,
                 upErr, upos, buffer, fullText, emitted, pending, delivered,
                 clientGone, wrote, dbFault, created>>

\* reader.read() returns done: the stream is closed and drained
\* (lines 85, 110-112).
RelayEnd(r) ==
  /\ rpc[r] = "read"
  /\ queue[r] = <<>>
  /\ spc[r] = "closed"
  /\ rpc' = Set(rpc, r, "closed")
  /\ UNCHANGED <<authVars, routerVars, apiKey, user, body, route, dbVars, handlerVars, producerVars, cur,
                 pending, delivered, clientGone, wrote, dbFault, created>>

RelayWriteWhenStreamEnded(r) ==
  /\ rpc[r] = "write"
  /\ ~clientGone[r]
  /\ spc[r] = "closed"
  /\ delivered' = Set(delivered, r, Append(delivered[r], cur[r]))
  /\ LET texts == Captured(cur[r])
     IN /\ pending' = Set(pending, r, texts)
        /\ rpc' = Set(rpc, r, IF texts = <<>> THEN "read" ELSE "store")
  /\ UNCHANGED <<authVars, routerVars, apiKey, user, body, route, dbVars, handlerVars, producerVars, cur,
                 clientGone, wrote, dbFault, created>>

\* await writer.write(value) resolves, then the chunk is scanned for done
\* events (lines 88-97).
RelayWrite(r) ==
  /\ rpc[r] = "write"
  /\ ~clientGone[r]
  /\ delivered' = Set(delivered, r, Append(delivered[r], cur[r]))
  /\ LET texts == Captured(cur[r])
     IN /\ pending' = Set(pending, r, texts)
        /\ rpc' = Set(rpc, r, IF texts = <<>> THEN "read" ELSE "store")
  /\ UNCHANGED <<authVars, routerVars, apiKey, user, body, route, dbVars, handlerVars, producerVars, cur,
                 clientGone, wrote, dbFault, created>>

RelayWriteFailsAndHangs(r) ==
  /\ rpc[r] = "write"
  /\ clientGone[r]
  /\ UNCHANGED vars

\* await writer.write(value) rejects: the catch logs, finally closes
\* (lines 108-112).
RelayWriteFails(r) ==
  /\ rpc[r] = "write"
  /\ clientGone[r]
  /\ rpc' = Set(rpc, r, "closed")
  /\ UNCHANGED <<authVars, routerVars, apiKey, user, body, route, dbVars, handlerVars, producerVars, cur,
                 pending, delivered, clientGone, wrote, dbFault, created>>

AfterStore(r) ==
  /\ pending' = Set(pending, r, Tail(pending[r]))
  /\ rpc' = Set(rpc, r, IF Tail(pending[r]) = <<>> THEN "read" ELSE "store")

RelayStoreToActiveConversation(r) ==
  /\ rpc[r] = "store"
  /\ LET active == SelectActiveConversation(conversations, user[r])
     IN /\ CanInsertMessage(active)
        /\ messages' = Append(messages,
                         MsgRow(nextMsgId, active, "assistant", Head(pending[r])))
  /\ nextMsgId' = nextMsgId + 1
  /\ wrote' = Set(wrote, r, wrote[r] \cup {nextMsgId})
  /\ AfterStore(r)
  /\ UNCHANGED <<authVars, routerVars, apiKey, user, body, route, conversations, nextConvId, handlerVars,
                 producerVars, cur, delivered, clientGone, dbFault, created>>

\* await addMessage(env.DB, conversation.id, 'assistant', event.fullText)
\* resolves (line 99).
RelayStore(r) ==
  /\ rpc[r] = "store"
  /\ CanInsertMessage(conv[r])
  /\ messages' = Append(messages,
                        MsgRow(nextMsgId, conv[r], "assistant", Head(pending[r])))
  /\ nextMsgId' = nextMsgId + 1
  /\ wrote' = Set(wrote, r, wrote[r] \cup {nextMsgId})
  /\ AfterStore(r)
  /\ UNCHANGED <<authVars, routerVars, apiKey, user, body, route, conversations, nextConvId, handlerVars,
                 producerVars, cur, delivered, clientGone, dbFault, created>>

RelayStoreFailsAborts(r) ==
  /\ rpc[r] = "store"
  /\ dbFault' = Set(dbFault, r, TRUE)
  /\ rpc' = Set(rpc, r, "closed")
  /\ UNCHANGED <<authVars, routerVars, apiKey, user, body, route, dbVars, handlerVars, producerVars, cur,
                 pending, delivered, clientGone, wrote, created>>

\* addMessage rejects: the inner catch of lines 102-104 swallows it.
RelayStoreFails(r) ==
  /\ rpc[r] = "store"
  /\ dbFault' = Set(dbFault, r, TRUE)
  /\ AfterStore(r)
  /\ UNCHANGED <<authVars, routerVars, apiKey, user, body, route, dbVars, handlerVars, producerVars, cur,
                 delivered, clientGone, wrote, created>>

\* The browser cancels the response body while it is streamed.
ClientDisconnect(r) ==
  /\ resp[r].kind = "stream"
  /\ rpc[r] \notin {"none", "closed"}
  /\ ~clientGone[r]
  /\ clientGone' = Set(clientGone, r, TRUE)
  /\ UNCHANGED <<authVars, routerVars, apiKey, user, body, route, dbVars, handlerVars, producerVars, relayVars,
                 wrote, dbFault, created>>

\* ---------------------------------------------------------- specification

Next ==
  \E r \in Reqs :
    \/ Receive(r)
    \/ GetConversation(r)
    \/ InsertConversation(r)
    \/ AddUserMessage(r)
    \/ StartStream(r)
    \/ HandlerDbFault(r)
    \/ FetchThrows(r)
    \/ FetchNotOk(r)
    \/ ErrorBodyRead(r)
    \/ ErrorBodyThrows(r)
    \/ FetchOk(r)
    \/ UpstreamRead(r)
    \/ UpstreamEnd(r)
    \/ UpstreamReadThrows(r)
    \/ RelayRead(r)
    \/ RelayEnd(r)
    \/ RelayWrite(r)
    \/ RelayWriteFails(r)
    \/ RelayStore(r)
    \/ RelayStoreFails(r)
    \/ ClientDisconnect(r)

Spec == Init /\ [][Next]_vars

\* ------------------------------------------------ the other chat handlers

Routes == {"message", "history", "new", "clear"}

\* jsonResponse(data): status 200.
JsonOk == [status |-> 200, kind |-> "json", error |-> ""]

\* handleChatHistory: getOrCreateConversation, the SELECT (db.js 73-76).
ChatHistorySelect(r) ==
  /\ pc[r] = "recv"
  /\ route[r] = "history"
  /\ LET c == SelectActiveConversation(conversations, user[r])
     IN IF c = NoConv
        THEN /\ pc' = Set(pc, r, "histInsert")
             /\ conv' = conv
        ELSE /\ pc' = Set(pc, r, "histFetch")
             /\ conv' = Set(conv, r, c)
  /\ UNCHANGED <<authVars, routerVars, apiKey, user, body, route, dbVars, upMessages, fetchedHistory,
                 calls, resp, producerVars, relayVars, clientGone, wrote, dbFault,
                 created>>

\* handleChatHistory: getOrCreateConversation, the INSERT (db.js 78-83).
ChatHistoryInsert(r) ==
  /\ pc[r] = "histInsert"
  /\ conversations' = conversations \cup {ConvRow(nextConvId, user[r], TRUE)}
  /\ nextConvId' = nextConvId + 1
  /\ conv' = Set(conv, r, nextConvId)
  /\ created' = Set(created, r, created[r] \cup {nextConvId})
  /\ pc' = Set(pc, r, "histFetch")
  /\ UNCHANGED <<authVars, routerVars, apiKey, user, body, route, messages, nextMsgId, upMessages,
                 fetchedHistory, calls, resp, producerVars, relayVars, clientGone,
                 wrote, dbFault>>

\* handleChatHistory: getMessages and the JSON answer (lines 135-138).
ChatHistoryFetch(r) ==
  /\ pc[r] = "histFetch"
  /\ fetchedHistory' = Set(fetchedHistory, r,
                           getMessages(messages, conv[r], MAX_HISTORY))
  /\ resp' = Set(resp, r, JsonOk)
  /\ pc' = Set(pc, r, "done")
  /\ UNCHANGED <<authVars, routerVars, apiKey, user, body, route, dbVars, conv, upMessages, calls,
                 producerVars, relayVars, clientGone, wrote, dbFault, created>>

\* UPDATE conversations SET is_active = 0 WHERE user_id = ? AND is_active = 1
DeactivateByDelete(convs, u) == {c \in convs : c.user_id # u}
Deactivate(convs, u) ==
  {IF c.user_id = u THEN ConvRow(c.id, c.user_id, FALSE) ELSE c : c \in convs}

\* handleNewConversation: startNewConversation, the UPDATE (db.js 92-95).
StartNewConversationUpdate(r) ==
  /\ pc[r] = "recv"
  /\ route[r] = "new"
  /\ conversations' = Deactivate(conversations, user[r])
  /\ pc' = Set(pc, r, "newInsert")
  /\ UNCHANGED <<authVars, routerVars, apiKey, user, body, route, messages, nextConvId, nextMsgId, conv,
                 upMessages, fetchedHistory, calls, resp, producerVars, relayVars,
                 clientGone, wrote, dbFault, created>>

\* handleNewConversation: startNewConversation, the INSERT, and the JSON
\* answer (db.js 97-100, chat.js 151).
StartNewConversationInsert(r) ==
  /\ pc[r] = "newInsert"
  /\ conversations' = conversations \cup {ConvRow(nextConvId, user[r], TRUE)}
  /\ nextConvId' = nextConvId + 1
  /\ created' = Set(created, r, created[r] \cup {nextConvId})
  /\ resp' = Set(resp, r, JsonOk)
  /\ pc' = Set(pc, r, "done")
  /\ UNCHANGED <<authVars, routerVars, apiKey, user, body, route, messages, nextMsgId, conv, upMessages,
                 fetchedHistory, calls, producerVars, relayVars, clientGone, wrote,
                 dbFault>>

ClearEveryConversation(r) ==
  /\ pc[r] = "recv"
  /\ route[r] = "clear"
  /\ conversations' = {}
  /\ messages' = <<>>
  /\ resp' = Set(resp, r, JsonOk)
  /\ pc' = Set(pc, r, "done")
  /\ UNCHANGED <<authVars, routerVars, apiKey, user, body, route, nextConvId, nextMsgId, conv, upMessages,
                 fetchedHistory, calls, producerVars, relayVars, clientGone, wrote,
                 dbFault, created>>

\* handleClearConversations: DELETE FROM conversations WHERE user_id = ?,
\* the messages of the deleted rows go with them (ON DELETE CASCADE).
ClearAllConversations(r) ==
  /\ pc[r] = "recv"
  /\ route[r] = "clear"
  /\ LET kept == {c \in conversations : c.user_id # user[r]}
     IN /\ conversations' = kept
        /\ messages' = SelectSeq(messages,
                         LAMBDA m : \E c \in kept : c.id = m.conversation_id)
  /\ resp' = Set(resp, r, JsonOk)
  /\ pc' = Set(pc, r, "done")
  /\ UNCHANGED <<authVars, routerVars, apiKey, user, body, route, nextConvId, nextMsgId, conv, upMessages,
                 fetchedHistory, calls, producerVars, relayVars, clientGone, wrote,
                 dbFault, created>>

\* A storage statement of one of these handlers rejects: the handler throws
\* and the worker's catch answers 500 (index.js 36-42).
OtherHandlerDbFault(r) ==
  /\ \/ pc[r] = "recv" /\ route[r] \in {"history", "new", "clear"}
     \/ pc[r] \in {"histInsert", "histFetch", "newInsert"}
  /\ dbFault' = Set(dbFault, r, TRUE)
  /\ resp' = Set(resp, r, InternalError)
  /\ pc' = Set(pc, r, "done")
  /\ UNCHANGED <<authVars, routerVars, apiKey, user, body, route, dbVars, conv, upMessages, fetchedHistory,
                 calls, producerVars, relayVars, clientGone, wrote, created>>

\* ---------------------------------------------- long conversations

\* A conversation of n earlier user turns that got no stored reply.
LongConversation(n) ==
  [i \in 1..n |-> MsgRow(i, 1, "user", <<Run("p", i)>>)]

\* One chat request arrives on storage holding a conversation of fewer
\* messages than the history limit, one fewer, as many, or one more.
InitHistory ==
  /\ apiKey = "sk"
  /\ user = [r \in Reqs |-> "u1"]
  /\ route = [r \in Reqs |-> "message"]
  /\ \E b \in {TypicalBody, Body(TRUE, StrVal(<<Run("q", 1)>>), "image/png")} :
       body = [r \in Reqs |-> b]
  /\ \/ /\ conversations = {}
        /\ messages = <<>>
        /\ nextConvId = 1
        /\ nextMsgId = 1
     \/ \E n \in {1, MAX_HISTORY - 1, MAX_HISTORY, MAX_HISTORY + 1} :
          /\ conversations = {ConvRow(1, "u1", TRUE)}
          /\ messages = LongConversation(n)
          /\ nextConvId = 2
          /\ nextMsgId = n + 1
  /\ \E u \in FewBodies : upBody = [r \in Reqs |-> u]
  /\ InitRequests({"r1"})

SpecHistory == InitHistory /\ [][Next]_vars

\* ------------------------------------------------- concurrent requests

\* Two requests arrive, r1 of user u1 and r2 of either user, each on any of
\* the four chat routes.  The upstream of r1 sends one delta and ends its
\* body, the upstream of r2 sends an empty body.
InitConv ==
  /\ apiKey = "sk"
  /\ \E u \in Users : user = [r \in Reqs |-> IF r = "r1" THEN "u1" ELSE u]
  /\ route \in [Reqs -> Routes]
  /\ body = [r \in Reqs |-> TypicalBody]
  /\ InitDb
  /\ upBody = [r \in Reqs |->
                 IF r = "r1" THEN Terminated(<<DeltaLine(<<"a">>)>>) ELSE <<>>]
  /\ InitRequests(Reqs)

NextConv ==
  \/ Next
  \/ \E r \in Reqs :
       \/ ChatHistorySelect(r)
       \/ ChatHistoryInsert(r)
       \/ ChatHistoryFetch(r)
       \/ StartNewConversationUpdate(r)
       \/ StartNewConversationInsert(r)
       \/ ClearAllConversations(r)
       \/ OtherHandlerDbFault(r)

SpecConv == InitConv /\ [][NextConv]_vars

\* ---------------------------------------------------------------- router

\* The routes behind the session check (router.js 78-95), the public POST
\* routes (38-49), GET /api/auth/me (52), and a path no route matches.
ProtectedRoutes == {"logout", "message", "history", "new", "clear", "upload"}
PublicPosts ==
  {"register/challenge", "register/verify", "login/challenge", "login/verify"}
Paths == ProtectedRoutes \cup PublicPosts \cup {"me", "other"}

\* The method each protected route is matched with.
MethodOf(p) == IF p = "history" THEN "GET" ELSE "POST"

Methods == {"GET", "POST", "OPTIONS", "DELETE"}
AppOrigin == "https://app"
Origins == {"", AppOrigin, LocalOrigin, "https://evil"}

\* method !== 'GET' && method !== 'OPTIONS'
Mutating(m) == m \notin {"GET", "OPTIONS"}

AllowsAnyOrigin(o) == TRUE

\* [env.WEBAUTHN_ORIGIN, 'http://localhost:5173'].filter(Boolean).includes(o)
Allowed(o) == o \in ({webauthnOrigin, LocalOrigin} \ {""})

\* getSession: no token in the cookie, or no entry under it, gives null.
HasSession(token) == token # "" /\ token \in DOMAIN sessions

\* new Response(null, { status: 204 })
NoContent == [status |-> 204, kind |-> "empty", error |-> ""]

\* jsonResponse({ user }): the user's id, or "null".
MeResponse(u) == [status |-> 200, kind |-> "json", error |-> "", user |-> u]

\* Everything the router and the handlers of auth and upload leave alone.
chatVars == <<apiKey, body, route, dbVars, conv, upMessages, fetchedHistory,
              calls, producerVars, relayVars, clientGone, wrote, created,
              dbFault>>

\* The worker's fetch answers a CORS preflight itself.
Preflight(r) ==
  /\ pc[r] = "entry"
  /\ method[r] = "OPTIONS"
  /\ resp' = Set(resp, r, NoContent)
  /\ pc' = Set(pc, r, "done")
  /\ UNCHANGED <<authVars, routerVars, user, chatVars>>

\* handleRequest up to its first await: the Origin check on mutating
\* requests, the public routes, and the call of getSession.
RouteRequest(r) ==
  /\ pc[r] = "entry"
  /\ method[r] # "OPTIONS"
  /\ IF Mutating(method[r]) /\ origin[r] # "" /\ ~Allowed(origin[r])
     THEN /\ resp' = Set(resp, r, JsonError(403, "Forbidden"))
          /\ pc' = Set(pc, r, "done")
          /\ UNCHANGED handler
     ELSE IF method[r] = "POST" /\ route[r] \in PublicPosts
     THEN /\ handler' = Set(handler, r, route[r])
          /\ pc' = Set(pc, r, "public")
          /\ UNCHANGED resp
     ELSE IF method[r] = "GET" /\ route[r] = "me"
     THEN /\ handler' = Set(handler, r, "me")
          /\ pc' = Set(pc, r, "me")
          /\ UNCHANGED resp
     ELSE /\ pc' = Set(pc, r, "session")
          /\ UNCHANGED <<handler, resp>>
  /\ UNCHANGED <<authVars, webauthnOrigin, sessions, method, origin, cookie, user, chatVars>>

RouteSessionWithoutCheck(r) ==
  /\ pc[r] = "session"
  /\ IF Mutating(method[r]) /\ (origin[r] = "" \/ ~Allowed(origin[r]))
     THEN /\ resp' = Set(resp, r, JsonError(403, "Forbidden"))
          /\ pc' = Set(pc, r, "done")
          /\ UNCHANGED <<handler, user>>
     ELSE IF route[r] \in ProtectedRoutes /\ method[r] = MethodOf(route[r])
     THEN /\ user' = Set(user, r, IF HasSession(cookie[r])
                                  THEN sessions[cookie[r]] ELSE "none")
          /\ handler' = Set(handler, r, route[r])
          /\ pc' = Set(pc, r, IF route[r] \in Routes THEN "recv" ELSE route[r])
          /\ UNCHANGED resp
     ELSE /\ resp' = Set(resp, r, JsonError(404, "Not found"))
          /\ pc' = Set(pc, r, "done")
          /\ UNCHANGED <<handler, user>>
  /\ UNCHANGED <<authVars, webauthnOrigin, sessions, method, origin, cookie, chatVars>>

\* getSession answers: 401 without a session, 403 for a mutating request
\* whose Origin is missing or not allowed, else the route's handler is
\* called with the session, or 404.
RouteSession(r) ==
  /\ pc[r] = "session"
  /\ IF ~HasSession(cookie[r])
     THEN /\ resp' = Set(resp, r, JsonError(401, "Unauthorized"))
          /\ pc' = Set(pc, r, "done")
          /\ UNCHANGED <<handler, user>>
     ELSE IF Mutating(method[r]) /\ (origin[r] = "" \/ ~Allowed(origin[r]))
     THEN /\ resp' = Set(resp, r, JsonError(403, "Forbidden"))
          /\ pc' = Set(pc, r, "done")
          /\ UNCHANGED <<handler, user>>
     ELSE IF route[r] \in ProtectedRoutes /\ method[r] = MethodOf(route[r])
     THEN /\ user' = Set(user, r, sessions[cookie[r]])
          /\ handler' = Set(handler, r, route[r])
          /\ pc' = Set(pc, r, IF route[r] \in Routes THEN "recv" ELSE route[r])
          /\ UNCHANGED resp
     ELSE /\ resp' = Set(resp, r, JsonError(404, "Not found"))
          /\ pc' = Set(pc, r, "done")
          /\ UNCHANGED <<handler, user>>
  /\ UNCHANGED <<authVars, webauthnOrigin, sessions, method, origin, cookie, chatVars>>

HandleLogoutKeepingSession(r) ==
  /\ pc[r] = "logout"
  /\ resp' = Set(resp, r, JsonOk)
  /\ pc' = Set(pc, r, "done")
  /\ UNCHANGED <<authVars, routerVars, user, chatVars>>

\* handleLogout: destroySession deletes the entry of session.token.
HandleLogout(r) ==
  /\ pc[r] = "logout"
  /\ sessions' = [t \in DOMAIN sessions \ {cookie[r]} |-> sessions[t]]
  /\ resp' = Set(resp, r, JsonOk)
  /\ pc' = Set(pc, r, "done")
  /\ UNCHANGED <<authVars, webauthnOrigin, method, origin, cookie, handler, user, chatVars>>

\* handleMe: the session's user, or null.
HandleMe(r) ==
  /\ pc[r] = "me"
  /\ resp' = Set(resp, r, MeResponse(IF HasSession(cookie[r])
                                     THEN sessions[cookie[r]] ELSE "null"))
  /\ pc' = Set(pc, r, "done")
  /\ UNCHANGED <<authVars, routerVars, user, chatVars>>

MAX_SIZE == 5 * 1024 * 1024

\* ALLOWED_TYPES
AllowedTypes == {"image/png", "image/jpeg", "image/jpg"}

\* An upload request: its Content-Type, whether its form data parses, its
\* 'file' field (absent, a string, a file), and the file's type and size.
Upload(multipart, parses, file, type, size) ==
  [multipart |-> multipart, parses |-> parses, file |-> file,
   type |-> type, size |-> size]

UploadInputs ==
  { Upload(FALSE, TRUE, "file", "image/png", 1),
    Upload(TRUE, FALSE, "file", "image/png", 1),
    Upload(TRUE, TRUE, "none", "image/png", 1),
    Upload(TRUE, TRUE, "string", "image/png", 1),
    Upload(TRUE, TRUE, "file", "text/plain", 1),
    Upload(TRUE, TRUE, "file", "image/jpg", MAX_SIZE + 1),
    Upload(TRUE, TRUE, "file", "image/jpeg", MAX_SIZE) }

\* handleUpload's checks, in order.
UploadResponse(f) ==
  IF ~f.multipart THEN JsonError(400, "Expected multipart/form-data")
  ELSE IF ~f.parses THEN JsonError(400, "Invalid form data")
  ELSE IF f.file # "file" THEN JsonError(400, "No file provided")
  ELSE IF f.type \notin AllowedTypes THEN JsonError(400, "Invalid file type")
  ELSE IF f.size > MAX_SIZE THEN JsonError(400, "File too large")
  ELSE JsonOk

\* handleUpload: validation and conversion only, nothing is stored.
HandleUpload(r) ==
  /\ pc[r] = "upload"
  /\ \E f \in UploadInputs : resp' = Set(resp, r, UploadResponse(f))
  /\ pc' = Set(pc, r, "done")
  /\ UNCHANGED <<authVars, routerVars, user, chatVars>>

\* Request r1 arrives with any method, path, Origin and cookie, while r2,
\* a logout of the session t1, arrives too.
InitRouter ==
  /\ apiKey = "sk"
  /\ AuthIdle
  /\ webauthnOrigin \in {"", AppOrigin}
  /\ sessions = IssuedSessions
  /\ \E m \in Methods : method = [r \in Reqs |-> IF r = "r1" THEN m ELSE "POST"]
  /\ \E o \in Origins :
       origin = [r \in Reqs |-> IF r = "r1" THEN o ELSE LocalOrigin]
  /\ \E t \in Tokens \cup {""} :
       cookie = [r \in Reqs |-> IF r = "r1" THEN t ELSE "t1"]
  /\ \E p \in Paths : route = [r \in Reqs |-> IF r = "r1" THEN p ELSE "logout"]
  /\ handler = [r \in Reqs |-> "none"]
  /\ user = [r \in Reqs |-> "none"]
  /\ body = [r \in Reqs |-> TypicalBody]
  /\ InitDb
  /\ upBody = [r \in Reqs |->
                 IF r = "r1" THEN Terminated(<<DeltaLine(<<"a">>)>>) ELSE <<>>]
  /\ pc = [r \in Reqs |-> "entry"]
  /\ InitRequestState

NextRouter ==
  \/ NextConv
  \/ \E r \in Reqs :
       \/ Preflight(r)
       \/ RouteRequest(r)
       \/ RouteSession(r)
       \/ HandleLogout(r)
       \/ HandleMe(r)
       \/ HandleUpload(r)

SpecRouter == InitRouter /\ [][NextRouter]_vars

\* ------------------------------------------------------------------ auth

\* Everything the auth handlers leave alone besides their own state.
restVars == <<webauthnOrigin, method, origin, cookie, handler, chatVars>>

\* crypto.randomUUID() and generateToken(): a value no one else holds.
NewChallengeId(r) == IF r = "r1" THEN "c3" ELSE "c4"
NewChallenge(r) == IF r = "r1" THEN "x3" ELSE "x4"
NewToken(r) == IF r = "r1" THEN "n1" ELSE "n2"

\* SESSIONS.put(key, value) and SESSIONS.delete(key).
KvPut(kv, k, v) == [x \in DOMAIN kv \cup {k} |-> IF x = k THEN v ELSE kv[x]]
KvDelete(kv, k) == [x \in DOMAIN kv \ {k} |-> kv[x]]

\* username.trim().length < 2 fails for these names.
ShortNames == {"", "a"}

\* SELECT * FROM users WHERE username = ? / WHERE id = ?
HasUsername(name) == \E u \in users : u.username = name
UserByUsername(name) == CHOOSE u \in users : u.username = name
HasUserId(id) == \E u \in users : u.id = id

\* SELECT * FROM passkey_credentials WHERE credential_id = ?
HasCredential(cid) == \E c \in credentials : c.credential_id = cid
CredentialById(cid) == CHOOSE c \in credentials : c.credential_id = cid

\* jsonResponse({ options, challengeId }) and the answer carrying the
\* session cookie.
ChallengeResponse(id) ==
  [status |-> 200, kind |-> "json", error |-> "", challengeId |-> id]
LoginChallengeResponse(id, uid) ==
  [status |-> 200, kind |-> "json", error |-> "", challengeId |-> id,
   userId |-> uid]
SessionResponse(uid, token) ==
  [status |-> 200, kind |-> "json", error |-> "", user |-> uid, cookie |-> token]

\* The signature counter check of the WebAuthn library.
CounterOk(n, counter) == (n = 0 /\ counter = 0) \/ n > counter

\* verifyRegistrationResponse: passes for a genuine attestation of the
\* expected challenge; otherwise it throws or reports verified = false.
RegistrationOutcomes(response, expected) ==
  IF response.genuine /\ response.challenge = expected
  THEN {"verified"} ELSE {"threw", "unverified"}

\* verifyAuthenticationResponse: passes for a genuine assertion of the
\* expected challenge by the given credential with a fresh counter.
AuthenticationOutcomes(response, expected, cred) ==
  IF /\ response.genuine
     /\ response.challenge = expected
     /\ response.id = cred.credential_id
     /\ CounterOk(response.counter, cred.counter)
  THEN {"verified"} ELSE {"threw", "unverified"}

\* The handler answers and ends.
Answer(r, response) ==
  /\ resp' = Set(resp, r, response)
  /\ pc' = Set(pc, r, "done")

\* handleRegisterChallenge up to getUserByUsername (lines 25-37).
RegisterChallengeLookup(r) ==
  /\ pc[r] = "public"
  /\ route[r] = "register/challenge"
  /\ IF authBody[r].username \in ShortNames
     THEN Answer(r, JsonError(400, "Username must be at least 2 characters"))
     ELSE IF HasUsername(authBody[r].username)
     THEN Answer(r, JsonError(400, "Registration failed"))
     ELSE pc' = Set(pc, r, "regPut") /\ UNCHANGED resp
  /\ UNCHANGED <<authVars, sessions, user, restVars>>

\* generateRegOptions stores the challenge; the handler answers (39-42).
RegisterChallengePut(r) ==
  /\ pc[r] = "regPut"
  /\ challenges' = KvPut(challenges, NewChallengeId(r),
                         ChallengeEntry(NewChallenge(r), authBody[r].username))
  /\ Answer(r, ChallengeResponse(NewChallengeId(r)))
  /\ UNCHANGED <<users, credentials, nextUserId, authBody, credential, stored,
                 verification, sessions, user, restVars>>

\* handleRegisterVerify up to the KV read of verifyRegResponse (53-63,
\* passkey.js 73-76).
RegisterVerifyGet(r) ==
  /\ pc[r] = "public"
  /\ route[r] = "register/verify"
  /\ IF authBody[r].challengeId = "" \/ ~authBody[r].response.given
     THEN /\ Answer(r, JsonError(400, "Missing challengeId or response"))
          /\ UNCHANGED stored
     ELSE IF authBody[r].challengeId \notin DOMAIN challenges
     THEN /\ Answer(r, JsonError(400, "Challenge expired or not found"))
          /\ UNCHANGED stored
     ELSE /\ stored' = Set(stored, r, challenges[authBody[r].challengeId])
          /\ pc' = Set(pc, r, "regCheck")
          /\ UNCHANGED resp
  /\ UNCHANGED <<users, credentials, nextUserId, challenges, authBody, credential,
                 verification, sessions, user, restVars>>

\* verifyRegistrationResponse settles (passkey.js 80-85); when it throws
\* the handler answers 400 (64-67) and the challenge stays stored.
RegisterVerifyCheck(r) ==
  /\ pc[r] = "regCheck"
  /\ \E o \in RegistrationOutcomes(authBody[r].response, stored[r].challenge) :
       /\ verification' = Set(verification, r, o)
       /\ IF o = "threw"
          THEN Answer(r, JsonError(400, "Verification threw"))
          ELSE pc' = Set(pc, r, "regDelete") /\ UNCHANGED resp
  /\ UNCHANGED <<users, credentials, nextUserId, challenges, authBody, credential,
                 stored, sessions, user, restVars>>

\* The used challenge is deleted (passkey.js 88); a verification that did
\* not pass is answered 400 (69-72).
RegisterVerifyDelete(r) ==
  /\ pc[r] = "regDelete"
  /\ challenges' = KvDelete(challenges, authBody[r].challengeId)
  /\ IF verification[r] # "verified"
     THEN Answer(r, JsonError(400, "Registration verification failed"))
     ELSE pc' = Set(pc, r, "regUser") /\ UNCHANGED resp
  /\ UNCHANGED <<users, credentials, nextUserId, authBody, credential, stored,
                 verification, sessions, user, restVars>>

\* createUser (77, db.js 10-16): username is NOT NULL and UNIQUE; a missing
\* name or a second row with the name is rejected and the handler throws.
RegisterCreateUser(r) ==
  /\ pc[r] = "regUser"
  /\ IF stored[r].username = "" \/ HasUsername(stored[r].username)
     THEN /\ Answer(r, InternalError)
          /\ UNCHANGED <<users, nextUserId, user>>
     ELSE /\ users' = users \cup {UserRow(UserIdOf(nextUserId), stored[r].username)}
          /\ nextUserId' = nextUserId + 1
          /\ user' = Set(user, r, UserIdOf(nextUserId))
          /\ pc' = Set(pc, r, "regCred")
          /\ UNCHANGED resp
  /\ UNCHANGED <<credentials, challenges, authBody, credential, stored,
                 verification, sessions, restVars>>

\* saveCredential (84-91, db.js 34-41): credential_id is UNIQUE.
RegisterSaveCredential(r) ==
  /\ pc[r] = "regCred"
  /\ IF HasCredential(authBody[r].response.id)
     THEN /\ Answer(r, InternalError)
          /\ UNCHANGED credentials
     ELSE /\ credentials' = credentials \cup
               {CredRow(user[r], authBody[r].response.id,
                        authBody[r].response.counter)}
          /\ pc' = Set(pc, r, "regSession")
          /\ UNCHANGED resp
  /\ UNCHANGED <<users, nextUserId, challenges, authBody, credential, stored,
                 verification, sessions, user, restVars>>

\* createSession stores the session under a new token; the handler answers
\* with its cookie (the last await of handleRegisterVerify and of
\* handleLoginVerify).
CreateSession(r) ==
  /\ pc[r] \in {"regSession", "loginSession"}
  /\ sessions' = KvPut(sessions, NewToken(r), user[r])
  /\ Answer(r, SessionResponse(user[r], NewToken(r)))
  /\ UNCHANGED <<authVars, user, restVars>>

\* handleLoginChallenge up to getUserByUsername (114-126).
LoginChallengeUser(r) ==
  /\ pc[r] = "public"
  /\ route[r] = "login/challenge"
  /\ IF authBody[r].username = ""
     THEN /\ Answer(r, JsonError(400, "Username is required"))
          /\ UNCHANGED user
     ELSE IF ~HasUsername(authBody[r].username)
     THEN /\ Answer(r, JsonError(400, "Invalid username or passkey"))
          /\ UNCHANGED user
     ELSE /\ user' = Set(user, r, UserByUsername(authBody[r].username).id)
          /\ pc' = Set(pc, r, "loginCreds")
          /\ UNCHANGED resp
  /\ UNCHANGED <<authVars, sessions, restVars>>

\* getCredentialsByUserId (128-132).
LoginChallengeCredentials(r) ==
  /\ pc[r] = "loginCreds"
  /\ IF {c \in credentials : c.user_id = user[r]} = {}
     THEN Answer(r, JsonError(400, "Invalid username or passkey"))
     ELSE pc' = Set(pc, r, "loginPut") /\ UNCHANGED resp
  /\ UNCHANGED <<authVars, sessions, user, restVars>>

\* generateAuthOptions stores the challenge; the handler answers (134-137).
LoginChallengePut(r) ==
  /\ pc[r] = "loginPut"
  /\ challenges' = KvPut(challenges, NewChallengeId(r),
                         ChallengeEntry(NewChallenge(r), ""))
  /\ Answer(r, LoginChallengeResponse(NewChallengeId(r), user[r]))
  /\ UNCHANGED <<users, credentials, nextUserId, authBody, credential, stored,
                 verification, sessions, user, restVars>>

LoginVerifyAnyCredential(r) ==
  /\ pc[r] = "public"
  /\ route[r] = "login/verify"
  /\ LET b == authBody[r]
     IN IF b.challengeId = "" \/ ~b.response.given \/ b.userId = ""
        THEN /\ Answer(r, JsonError(400, "Missing required fields"))
             /\ UNCHANGED credential
        ELSE IF ~HasCredential(b.response.id)
        THEN /\ Answer(r, JsonError(400, "Credential not found"))
             /\ UNCHANGED credential
        ELSE /\ credential' = Set(credential, r, CredentialById(b.response.id))
             /\ pc' = Set(pc, r, "loginGet")
             /\ UNCHANGED resp
  /\ UNCHANGED <<users, credentials, nextUserId, challenges, authBody, stored,
                 verification, sessions, user, restVars>>

\* handleLoginVerify up to getCredentialByCredentialId (148-161).
LoginVerifyCredential(r) ==
  /\ pc[r] = "public"
  /\ route[r] = "login/verify"
  /\ LET b == authBody[r]
     IN IF b.challengeId = "" \/ ~b.response.given \/ b.userId = ""
        THEN /\ Answer(r, JsonError(400, "Missing required fields"))
             /\ UNCHANGED credential
        ELSE IF \/ ~HasCredential(b.response.id)
                \/ CredentialById(b.response.id).user_id # b.userId
        THEN /\ Answer(r, JsonError(400, "Credential not found"))
             /\ UNCHANGED credential
        ELSE /\ credential' = Set(credential, r, CredentialById(b.response.id))
             /\ pc' = Set(pc, r, "loginGet")
             /\ UNCHANGED resp
  /\ UNCHANGED <<users, credentials, nextUserId, challenges, authBody, stored,
                 verification, sessions, user, restVars>>

\* The KV read of verifyAuthResponse (passkey.js 137-140).
LoginVerifyGet(r) ==
  /\ pc[r] = "loginGet"
  /\ IF authBody[r].challengeId \notin DOMAIN challenges
     THEN /\ Answer(r, JsonError(400, "Challenge expired or not found"))
          /\ UNCHANGED stored
     ELSE /\ stored' = Set(stored, r, challenges[authBody[r].challengeId])
          /\ pc' = Set(pc, r, "loginCheck")
          /\ UNCHANGED resp
  /\ UNCHANGED <<users, credentials, nextUserId, challenges, authBody, credential,
                 verification, sessions, user, restVars>>

\* verifyAuthenticationResponse settles (passkey.js 146-157), checked
\* against the credential row the handler read; when it throws the handler
\* answers 400 (166-169) and the challenge stays stored.
LoginVerifyCheck(r) ==
  /\ pc[r] = "loginCheck"
  /\ \E o \in AuthenticationOutcomes(authBody[r].response, stored[r].challenge,
                                     credential[r]) :
       /\ verification' = Set(verification, r, o)
       /\ IF o = "threw"
          THEN Answer(r, JsonError(400, "Verification threw"))
          ELSE pc' = Set(pc, r, "loginDelete") /\ UNCHANGED resp
  /\ UNCHANGED <<users, credentials, nextUserId, challenges, authBody, credential,
                 stored, sessions, user, restVars>>

\* The used challenge is deleted (passkey.js 160); a verification that did
\* not pass is answered 400 (171-174).
LoginVerifyDelete(r) ==
  /\ pc[r] = "loginDelete"
  /\ challenges' = KvDelete(challenges, authBody[r].challengeId)
  /\ IF verification[r] # "verified"
     THEN Answer(r, JsonError(400, "Authentication failed"))
     ELSE pc' = Set(pc, r, "loginCounter") /\ UNCHANGED resp
  /\ UNCHANGED <<users, credentials, nextUserId, authBody, credential, stored,
                 verification, sessions, user, restVars>>

\* updateCredentialCounter (179-183, db.js 58-63).
LoginUpdateCounter(r) ==
  /\ pc[r] = "loginCounter"
  /\ credentials' =
       {IF c.credential_id = credential[r].credential_id
        THEN CredRow(c.user_id, c.credential_id, authBody[r].response.counter)
        ELSE c : c \in credentials}
  /\ pc' = Set(pc, r, "loginUser")
  /\ UNCHANGED <<users, nextUserId, challenges, authBody, credential, stored,
                 verification, sessions, user, resp, restVars>>

\* getUserById (186-187).
LoginGetUser(r) ==
  /\ pc[r] = "loginUser"
  /\ IF HasUserId(authBody[r].userId)
     THEN /\ user' = Set(user, r, authBody[r].userId)
          /\ pc' = Set(pc, r, "loginSession")
          /\ UNCHANGED resp
     ELSE /\ Answer(r, InternalError)
          /\ UNCHANGED user
  /\ UNCHANGED <<authVars, sessions, restVars>>

\* A statement on the database or the session store rejects outside any
\* try block: the handler throws and the worker's catch answers 500.
AuthStorageFault(r) ==
  /\ pc[r] \in {"regUser", "regCred", "regSession",
                "loginCounter", "loginUser", "loginSession"}
  /\ Answer(r, InternalError)
  /\ UNCHANGED <<authVars, sessions, user, restVars>>

\* expirationTtl: CHALLENGE_TTL, the store drops a challenge entry.
ChallengeExpires(c) ==
  /\ c \in DOMAIN challenges
  /\ challenges' = KvDelete(challenges, c)
  /\ UNCHANGED <<users, credentials, nextUserId, authBody, credential, stored,
                 verification, sessions, user, pc, resp, restVars>>

\* The challenges issued before the two requests arrive: c1 to register
\* the new name "cat", c2 to log in.
IssuedChallenges ==
  [c \in {"c1", "c2"} |->
     IF c = "c1" THEN ChallengeEntry("x1", "cat") ELSE ChallengeEntry("x2", "")]

\* The request bodies tried on each public route.
RegisterChallengeBodies ==
  {AuthBody(n, "", NoAssertion, "") : n \in {"a", "ann", "cat"}}
LoginChallengeBodies ==
  {AuthBody(n, "", NoAssertion, "") : n \in {"", "ann", "dan"}}
RegisterVerifyBodies ==
  {AuthBody("", "c1", a, "") :
     a \in {Assertion("k3", "x1", TRUE, 0), Assertion("k1", "x1", TRUE, 0),
            Assertion("k3", "x1", FALSE, 0), Assertion("k3", "x9", TRUE, 0),
            NoAssertion}}
    \cup {AuthBody("", c, Assertion("k3", "x1", TRUE, 0), "") : c \in {"", "c9"}}
    \cup {AuthBody("", "c2", Assertion("k3", "x2", TRUE, 0), "")}
LoginVerifyBodies ==
  {AuthBody("", "c2", a, u) :
     a \in {Assertion("k1", "x2", TRUE, 2), Assertion("k1", "x2", TRUE, 1),
            Assertion("k1", "x2", FALSE, 2), Assertion("k1", "x9", TRUE, 2),
            Assertion("k2", "x2", TRUE, 1), Assertion("k9", "x2", TRUE, 1)},
     u \in {"u1", "u2"}}
    \cup {AuthBody("", "c9", Assertion("k1", "x2", TRUE, 2), "u1"),
          AuthBody("", "c2", Assertion("k1", "x2", TRUE, 2), "")}
BodiesOf(p) ==
  CASE p = "register/challenge" -> RegisterChallengeBodies
    [] p = "register/verify" -> RegisterVerifyBodies
    [] p = "login/challenge" -> LoginChallengeBodies
    [] p = "login/verify" -> LoginVerifyBodies

\* Two requests arrive on public auth routes, each with every body of its
\* route; ann's passkey k1 has been used once, bob's k2 never.
InitAuth ==
  /\ apiKey = "sk"
  /\ users = RegisteredUsers
  /\ credentials = {CredRow("u1", "k1", 1), CredRow("u2", "k2", 0)}
  /\ nextUserId = 3
  /\ challenges = IssuedChallenges
  /\ route \in [Reqs -> PublicPosts \ {"logout"}]
  /\ authBody \in [Reqs -> UNION {BodiesOf(p) : p \in PublicPosts \ {"logout"}}]
  /\ \A r \in Reqs : authBody[r] \in BodiesOf(route[r])
  /\ AuthLocals
  /\ webauthnOrigin = ""
  /\ sessions = IssuedSessions
  /\ method = [r \in Reqs |-> "POST"]
  /\ origin = [r \in Reqs |-> LocalOrigin]
  /\ cookie = [r \in Reqs |-> ""]
  /\ handler = [r \in Reqs |-> "none"]
  /\ user = [r \in Reqs |-> "none"]
  /\ body = [r \in Reqs |-> TypicalBody]
  /\ InitDb
  /\ upBody = [r \in Reqs |-> <<>>]
  /\ pc = [r \in Reqs |-> "entry"]
  /\ InitRequestState

NextAuth ==
  \/ \E r \in Reqs :
       \/ RouteRequest(r)
       \/ RegisterChallengeLookup(r)
       \/ RegisterChallengePut(r)
       \/ RegisterVerifyGet(r)
       \/ RegisterVerifyCheck(r)
       \/ RegisterVerifyDelete(r)
       \/ RegisterCreateUser(r)
       \/ RegisterSaveCredential(r)
       \/ CreateSession(r)
       \/ LoginChallengeUser(r)
       \/ LoginChallengeCredentials(r)
       \/ LoginChallengePut(r)
       \/ LoginVerifyCredential(r)
       \/ LoginVerifyGet(r)
       \/ LoginVerifyCheck(r)
       \/ LoginVerifyDelete(r)
       \/ LoginUpdateCounter(r)
       \/ LoginGetUser(r)
       \/ AuthStorageFault(r)
  \/ \E c \in DOMAIN challenges : ChallengeExpires(c)

SpecAuth == InitAuth /\ [][NextAuth]_vars

\* ---------------------------------------------------------------- client

\* The streamingContent state of ChatView: null, or the text shown so far.
Null == [null |-> TRUE, text |-> <<>>]
Content(t) == [null |-> FALSE, text |-> t]

\* handleSend before the first read: streamingContent is '' and nothing has
\* been added to messages for the reply (lines 58-85).
Sending ==
  [added |-> <<>>, streamingContent |-> Content(<<>>), fullText |-> <<>>,
   thrown |-> FALSE]

\* The outer catch of handleSend (lines 128-131).
SendFailed(st) == [st EXCEPT !.thrown = TRUE, !.streamingContent = Null]

\* The body of the loop over the complete lines (lines 95-126).  A payload
\* that ends early is skipped ('Unexpected end of JSON input'); any other
\* parse fault and an error event are thrown to the outer catch.
OnLine(line, st) ==
  IF ~StartsWith(line, <<"data: ">>) THEN st
  ELSE LET d == SubSeq(line, 2, Len(line))
           ev == JsonParse(d)
       IN IF ~ev.ok
          THEN IF d = <<>> \/ d[Len(d)] # "}" THEN st ELSE SendFailed(st)
          ELSE CASE ev.type = "delta" ->
                      [st EXCEPT !.fullText = st.fullText \o ev.text,
                                 !.streamingContent = Content(st.fullText \o ev.text)]
                 [] ev.type = "done" ->
                      [st EXCEPT !.streamingContent = Null,
                                 !.added = Append(st.added,
                                             IF ev.text # <<>> THEN ev.text
                                             ELSE st.fullText)]
                 [] ev.type = "error" -> SendFailed(st)
                 [] OTHER -> st

\* The lines are handled in order until one throws.
RECURSIVE ReadLines(_, _)
ReadLines(lines, st) ==
  IF lines = <<>> \/ st.thrown THEN st
  ELSE ReadLines(Tail(lines), OnLine(Head(lines), st))

\* handleSend after the reader reported the end of the body: every chunk
\* was appended to the buffer, the complete lines were handled and the
\* piece after the last newline stayed in the buffer (lines 87-93).
ChatView(chunks) == ReadLines(Front(Split(Concat(chunks))), Sending)

\* ------------------------------------------------- two concurrent streams

\* Two chat requests of two users arrive on empty storage; the upstream of
\* r1 answers "a" and the upstream of r2 answers "b\n".
InitStreams ==
  /\ apiKey = "sk"
  /\ user = [r \in Reqs |-> IF r = "r1" THEN "u1" ELSE "u2"]
  /\ route = [r \in Reqs |-> "message"]
  /\ body = [r \in Reqs |-> TypicalBody]
  /\ conversations = {}
  /\ messages = <<>>
  /\ nextConvId = 1
  /\ nextMsgId = 1
  /\ upBody = [r \in Reqs |->
                 IF r = "r1" THEN Terminated(<<DeltaLine(<<"a">>)>>)
                 ELSE Terminated(<<DeltaLine(<<"b", "\n">>)>>)]
  /\ InitRequests(Reqs)

SpecStreams == InitStreams /\ [][Next]_vars

\* -------------------------------------------------------------- progress

\* The awaits of start() in streamChatResponse: each of them settles.
Producer(r) ==
  \/ FetchThrows(r)
  \/ FetchNotOk(r)
  \/ ErrorBodyRead(r)
  \/ ErrorBodyThrows(r)
  \/ FetchOk(r)
  \/ UpstreamRead(r)
  \/ UpstreamEnd(r)
  \/ UpstreamReadThrows(r)

\* The awaits of processStream: each of them settles.
Relay(r) ==
  \/ RelayRead(r)
  \/ RelayEnd(r)
  \/ RelayWrite(r)
  \/ RelayWriteFails(r)
  \/ RelayStore(r)
  \/ RelayStoreFails(r)

\* The event loop runs a task whose await has settled; the upstream
\* answers, and its body ends or fails; a write to the client is accepted
\* or fails.
Fairness == \A r \in Reqs : WF_vars(Producer(r)) /\ WF_vars(Relay(r))

\* One chat request arrives; the upstream sends an empty body, a stop
\* signal alone, or one delta without a stop signal.
InitLive ==
  /\ apiKey = "sk"
  /\ user = [r \in Reqs |-> "u1"]
  /\ route = [r \in Reqs |-> "message"]
  /\ body = [r \in Reqs |-> TypicalBody]
  /\ InitDb
  /\ \E u \in {<<>>, Terminated(<<StopLine>>),
               Terminated(<<DeltaLine(<<"a">>)>>)} :
       upBody = [r \in Reqs |-> u]
  /\ InitRequests({"r1"})

SpecLive == InitLive /\ [][Next]_vars /\ Fairness

\* ------------------------------------------------------- two chat turns

ImageBody == Body(TRUE, StrVal(<<Run("q", 1)>>), "image/png")

\* Two chat messages of user u1 arrive, the first with an image attached.
\* The upstream of r1 sends one delta and ends its body, the upstream of r2
\* sends an empty body.
InitTurns ==
  /\ apiKey = "sk"
  /\ user = [r \in Reqs |-> "u1"]
  /\ route = [r \in Reqs |-> "message"]
  /\ body = [r \in Reqs |-> IF r = "r1" THEN ImageBody ELSE TypicalBody]
  /\ InitDb
  /\ upBody = [r \in Reqs |->
                 IF r = "r1" THEN Terminated(<<DeltaLine(<<"a">>)>>) ELSE <<>>]
  /\ InitRequests(Reqs)

SpecTurns == InitTurns /\ [][Next]_vars

\* ------------------------------------------------------------ observation

\* The events of the data lines among `lines`, as the browser parses them.
RECURSIVE EventsOf(_)
EventsOf(lines) ==
  IF lines = <<>> THEN <<>>
  ELSE LET line == Head(lines)
           ev == IF StartsWith(line, <<"data: ">>)
                 THEN JsonParse(SubSeq(line, 2, Len(line)))
                 ELSE ParseFail
       IN (IF ev.ok THEN <<Event(ev.type, ev.text)>> ELSE <<>>)
          \o EventsOf(Tail(lines))

\* The frames the client has received so far.
Received(r) ==
  Concat([i \in 1..Len(delivered[r]) |-> EventsOf(Split(delivered[r][i]))])

IsTerminal(f) == f.type \in {"done", "error"}

Indices(frames, ty) == {i \in 1..Len(frames) : frames[i].type = ty}

Terminals(frames) == {i \in 1..Len(frames) : IsTerminal(frames[i])}

\* The text of the delta frames before position i, concatenated.
DeltasBefore(frames, i) ==
  Concat([j \in 1..(i - 1) |->
            IF frames[j].type = "delta" THEN frames[j].text ELSE <<>>])

\* The message rows of a role that request r inserted.
OwnRows(r, role) ==
  {i \in 1..Len(messages) : messages[i].id \in wrote[r] /\ messages[i].role = role}

\* The events of the complete lines of an upstream body.
UpstreamEvents(b) == EventsOf(Front(Split(b)))

\* The body holds a non-empty content delta and, after it, a stop signal.
ReplyThenStop(b) ==
  LET evs == UpstreamEvents(b)
  IN \E i \in 1..Len(evs) : \E j \in (i + 1)..Len(evs) :
       /\ evs[i].type = "content_block_delta" /\ evs[i].text # <<>>
       /\ evs[j].type = "message_stop"

\* The number of stop signals among the complete lines of a body.
StopSignals(b) == Cardinality(Indices(UpstreamEvents(b), "message_stop"))

Streamed(r) == resp[r].kind = "stream"
Closed(r) == rpc[r] = "closed"

\* ----------------------------------------------------------------- claims

\* C1: every request that starts streaming sends the client exactly one
\* terminal frame (done or error): never more than one at any time, and
\* exactly one once the output is closed to a client that stayed connected.
\* (Stated for an upstream that sends at most one stop signal.)
C1_ExactlyOneTerminal ==
  \A r \in Reqs :
    (Streamed(r) /\ StopSignals(upBody[r]) <= 1) =>
      LET n == Cardinality(Terminals(Received(r)))
      IN /\ n <= 1
         /\ (Closed(r) /\ ~clientGone[r]) => n = 1

\* C2: when the upstream answers 200, sends a non-empty delta and then a stop
\* signal and ends its body, the client stays connected and storage does not
\* fail, the request has stored exactly one user row and exactly one
\* assistant row, whose content is the accumulated reply.
C2_OneUserOneAssistantRow ==
  \A r \in Reqs :
    ( /\ Closed(r)
      /\ upOutcome[r] = "eof"
      /\ ReplyThenStop(upBody[r])
      /\ ~clientGone[r]
      /\ ~dbFault[r] )
    => /\ Cardinality(OwnRows(r, "user")) = 1
       /\ Cardinality(OwnRows(r, "assistant")) = 1
       /\ \A i \in OwnRows(r, "assistant") : messages[i].content = fullText[r]

\* C3: the relay appends at most one assistant message per request, however
\* many done frames reach it.
C3_AtMostOneAssistantAppend ==
  \A r \in Reqs : Cardinality(OwnRows(r, "assistant")) <= 1

\* C4: a request whose frame sequence holds an error frame has stored no
\* assistant row.
C4_NoAssistantRowOnError ==
  \A r \in Reqs :
    Indices(emitted[r], "error") # {} => OwnRows(r, "assistant") = {}

\* C5: in every done frame the client receives, fullText is the concatenation,
\* in order, of the text of the delta frames received before it.
C5_DoneCarriesConcatenation ==
  \A r \in Reqs :
    LET fr == Received(r)
    IN \A i \in Indices(fr, "done") : fr[i].text = DeltasBefore(fr, i)

C5_Witness ==
  LET fr == Received("r1")
  IN \E i \in Indices(fr, "done") :
       /\ Cardinality({j \in Indices(fr, "delta") : j < i}) >= 2
       /\ fr[i].text = <<"a", "b", "\n">>

\* C6: however the upstream body is split into chunks, the frames emitted
\* after reading a prefix of it are the frames that decoding the prefix as one
\* chunk emits, and after the body ended they are those of the whole body
\* followed by the closing done frame.
C6_ChunkBoundaryInvariance ==
  \A r \in Reqs :
    LET whole == DecodeChunk(<<>>, <<>>, SubSeq(upBody[r], 1, upos[r]))
    IN /\ spc[r] = "read" =>
            /\ emitted[r] = whole.out
            /\ fullText[r] = whole.fullText
       /\ upOutcome[r] = "eof" =>
            emitted[r] = whole.out \o <<DoneFrame(whole.fullText)>>

\* A line is split across two reads after an earlier line was decoded.
C6_Witness ==
  /\ spc["r1"] = "read"
  /\ buffer["r1"] # <<>>
  /\ Indices(emitted["r1"], "delta") # {}
  /\ upos["r1"] < Len(upBody["r1"])
  /\ \E i \in 1..Len(upBody["r1"]) : i > upos["r1"] /\ upBody["r1"][i] = "}"

\* C7: when the upstream answers with a non-success status and its body is
\* read, the response is the 200 stream, the only frame is an error frame
\* carrying that body, which a connected client has received once the output
\* is closed, the user row is stored and no assistant row is.
C7_NonSuccessStatus ==
  \A r \in Reqs :
    upOutcome[r] = "status_body" =>
      /\ resp[r] = StreamResponse
      /\ emitted[r] = <<ErrorFrame(upErr[r])>>
      /\ \A i \in 1..Len(Received(r)) : Received(r)[i] = ErrorFrame(upErr[r])
      /\ (Closed(r) /\ ~clientGone[r]) => Received(r) = <<ErrorFrame(upErr[r])>>
      /\ Cardinality(OwnRows(r, "user")) = 1
      /\ OwnRows(r, "assistant") = {}

C7_Witness ==
  /\ Closed("r1")
  /\ upOutcome["r1"] = "status_body"
  /\ ~clientGone["r1"]
  /\ Received("r1") = <<ErrorFrame(<<"o", "\n">>)>>
  /\ Cardinality(OwnRows("r1", "user")) = 1

\* C8: once the upstream call of a request is issued, the request's user
\* message (the trimmed content, in the request's conversation) is in
\* storage, and it stays there after the request ended, whatever the
\* upstream did.
C8_UserRowBeforeUpstream ==
  \A r \in Reqs :
    calls[r] > 0 =>
      \E i \in OwnRows(r, "user") :
        /\ messages[i].conversation_id = conv[r]
        /\ messages[i].content = Trim(body[r].content.s)

C8_Witness ==
  /\ Closed("r1")
  /\ upOutcome["r1"] = "read_fault"
  /\ calls["r1"] = 1
  /\ \E i \in OwnRows("r1", "user") : messages[i].content = <<Run("q", 2)>>

\* The content is empty, blank, not a string or longer than the limit.
InvalidContent(c) ==
  \/ c.t # "string"
  \/ StrLen(Trim(c.s)) = 0
  \/ StrLen(c.s) > MAX_MESSAGE_LENGTH

NoSideEffects(r) ==
  /\ created[r] = {}
  /\ wrote[r] = {}
  /\ calls[r] = 0
  /\ spc[r] = "none"
  /\ rpc[r] = "none"

\* C9: a request whose content is empty, blank, not a string or too long is
\* answered with a plain 400 and has no side effect.
C9_InvalidContentRejected400 ==
  \A r \in Reqs :
    (pc[r] = "done" /\ body[r].json /\ InvalidContent(body[r].content)) =>
      /\ resp[r].kind = "json"
      /\ resp[r].status = 400
      /\ NoSideEffects(r)

\* C10: while the API key is not configured a chat request has no side
\* effect (no row, no upstream call, no stream), and its answer is a plain
\* error response.
C10_NoKeyRejectedBeforeStreaming ==
  \A r \in Reqs :
    apiKey = "" =>
      /\ NoSideEffects(r)
      /\ pc[r] = "done" =>
           /\ resp[r].kind = "json"
           /\ resp[r].status >= 400

C10_Witness ==
  /\ apiKey = ""
  /\ pc["r1"] = "done"
  /\ body["r1"] = TypicalBody
  /\ resp["r1"] = JsonError(500, "API key not configured")

\* The positions, among the rows of the request's conversation in id order,
\* of the user row the request inserted.
OwnUserPositions(r) ==
  LET rows == SelectSeq(messages, LAMBDA m : m.conversation_id = conv[r])
  IN {i \in 1..Len(rows) : rows[i].id \in wrote[r] /\ rows[i].role = "user"}

\* The fetched history of the request without the row the request inserted
\* (the fetch starts at the first row of the conversation).
HistoryWithoutOwnRow(r) ==
  LET h == fetchedHistory[r]
  IN [i \in 1..Cardinality({j \in 1..Len(h) : j \notin OwnUserPositions(r)}) |->
        h[CHOOSE j \in 1..Len(h) :
            /\ j \notin OwnUserPositions(r)
            /\ Cardinality({k \in 1..j : k \notin OwnUserPositions(r)}) = i]]

\* C11: in the message list sent upstream the new user turn is the last
\* element, and the elements before it are the fetched history with exactly
\* the row the request just stored removed, whatever the length of the
\* conversation.
C11_HistoryMinusNewTurn ==
  \A r \in Reqs :
    calls[r] > 0 =>
      LET ms == upMessages[r]
          h == HistoryWithoutOwnRow(r)
      IN /\ Len(ms) = Len(h) + 1
         /\ Last(ms) = [role |-> "user", content |-> Trim(body[r].content.s),
                        image |-> body[r].imageData]
         /\ \A i \in 1..Len(h) :
              ms[i].role = h[i].role /\ ms[i].content = h[i].content

\* The `limit` rows of a conversation with the largest ids, in id order.
MostRecent(msgs, cid, limit) ==
  LET rows == SelectSeq(msgs, LAMBDA m : m.conversation_id = cid)
      n == IF Len(rows) < limit THEN Len(rows) ELSE limit
  IN [i \in 1..n |->
        [role |-> rows[Len(rows) - n + i].role,
         content |-> rows[Len(rows) - n + i].content]]

\* C12: the rows getMessages returned to a request are the most recent rows
\* of its conversation: all of them when it holds no more than the limit,
\* else the `limit` rows with the largest ids.  (Read when the upstream call
\* is issued, before any later row is stored.)
C12_MostRecentMessages ==
  \A r \in Reqs :
    spc[r] = "fetch" =>
      fetchedHistory[r] = MostRecent(messages, conv[r], MAX_HISTORY)

\* C13: the history fetch never returns more than MAX_HISTORY rows, however
\* many the conversation holds, and the message list sent upstream never
\* has more than MAX_HISTORY elements.
C13_HistoryBound ==
  \A r \in Reqs :
    /\ Len(fetchedHistory[r]) <= MAX_HISTORY
    /\ Len(upMessages[r]) <= MAX_HISTORY

\* The conversation holds more rows than the limit and the fetch returned
\* as many as the limit allows.
C13_Witness ==
  /\ calls["r1"] = 1
  /\ Len(SelectSeq(messages, LAMBDA m : m.conversation_id = conv["r1"])) > MAX_HISTORY + 1
  /\ Len(fetchedHistory["r1"]) = MAX_HISTORY
  /\ Len(upMessages["r1"]) = MAX_HISTORY

ActiveConversations(u) == {c \in conversations : c.user_id = u /\ c.is_active}

\* C14: in every reachable state, however chat-message, history,
\* new-conversation and clear requests of a user interleave, at most one
\* conversation of the user is active.
C14_AtMostOneActive ==
  \A u \in Users : Cardinality(ActiveConversations(u)) <= 1

MessageIds(msgs) == {msgs[i].id : i \in 1..Len(msgs)}
ConversationIds(convs) == {c.id : c \in convs}

\* A written message row is unchanged as long as it exists.
MessagesImmutableStep ==
  \A i \in 1..Len(messages) : \A j \in 1..Len(messages') :
    messages'[j].id = messages[i].id => messages'[j] = messages[i]

\* A step that removes a message row or a conversation row is the step of a
\* clear request.
RemovalOnlyByClearStep ==
  ( \/ ~(MessageIds(messages) \subseteq MessageIds(messages'))
    \/ ~(ConversationIds(conversations) \subseteq ConversationIds(conversations')) )
  => \E r \in Reqs :
       /\ route[r] = "clear"
       /\ pc[r] = "recv"
       /\ pc'[r] = "done"
       /\ resp'[r] = JsonOk

\* A step of a new-conversation request leaves every message row as it is,
\* keeps every conversation row, changes no row of another user, changes a
\* row of its user only by deactivating it, and adds at most one row, which
\* is active, of its user and without messages; when the request has
\* answered it has added exactly one row.
NewConversationStep ==
  \A r \in Reqs :
    (route[r] = "new" /\ pc'[r] # pc[r]) =>
      /\ messages' = messages
      /\ \A c \in conversations :
           \/ c \in conversations'
           \/ /\ c.user_id = user[r]
              /\ ConvRow(c.id, c.user_id, FALSE) \in conversations'
      /\ Cardinality(conversations') <= Cardinality(conversations) + 1
      /\ \A d \in conversations' :
           d.id \notin ConversationIds(conversations) =>
             /\ d.user_id = user[r]
             /\ d.is_active
             /\ \A i \in 1..Len(messages') : messages'[i].conversation_id # d.id
      /\ resp'[r] = JsonOk =>
           /\ Cardinality(created'[r]) = 1
           /\ \A id \in created'[r] : ConvRow(id, user[r], TRUE) \in conversations'

\* C15: starting a new conversation only deactivates the user's existing
\* conversations and creates one fresh active, empty conversation; it
\* deletes or modifies no message row and deletes no conversation row; rows
\* are removed only by the clear operation, and a written message's role and
\* content never change.
C15_NewConversationKeepsRows ==
  [][MessagesImmutableStep /\ RemovalOnlyByClearStep /\ NewConversationStep]_vars

\* A new-conversation request has answered: the earlier conversation is
\* there, deactivated, with its messages, next to the fresh active one.
C15_Witness ==
  /\ route["r1"] = "new"
  /\ resp["r1"] = JsonOk
  /\ \E c \in conversations :
       /\ c.user_id = "u1"
       /\ ~c.is_active
       /\ \E i \in 1..Len(messages) : messages[i].conversation_id = c.id
  /\ \E d \in conversations :
       /\ d.id \in created["r1"]
       /\ d.is_active
       /\ \A i \in 1..Len(messages) : messages[i].conversation_id # d.id

\* C16: the frames the client has received are, in order, the first frames
\* the decoder produced, and no delta frame is received after a terminal
\* (done or error) frame of the same request, whatever the upstream sends.
C16_OrderedNoDeltaAfterTerminal ==
  \A r \in Reqs :
    LET fr == Received(r)
    IN /\ Len(fr) <= Len(emitted[r])
       /\ fr = SubSeq(emitted[r], 1, Len(fr))
       /\ \A i \in Terminals(fr) : \A j \in Indices(fr, "delta") : j < i

\* C17: when the upstream body has ended without a stop signal, the frames
\* the decoder emitted hold exactly one done frame and no error frame, the
\* done frame is the last frame, and it carries the text accumulated from
\* all the deltas.
C17_DoneAtEndOfBody ==
  \A r \in Reqs :
    (upOutcome[r] = "eof" /\ StopSignals(upBody[r]) = 0) =>
      LET fr == emitted[r]
      IN /\ fr # <<>>
         /\ Indices(fr, "done") = {Len(fr)}
         /\ Indices(fr, "error") = {}
         /\ Last(fr).text = DeltasBefore(fr, Len(fr))
         /\ Last(fr).text = fullText[r]

C17_Witness ==
  /\ upOutcome["r1"] = "eof"
  /\ StopSignals(upBody["r1"]) = 0
  /\ Cardinality(Indices(emitted["r1"], "delta")) = 2
  /\ Last(emitted["r1"]) = DoneFrame(<<"a", "b", "\n">>)

\* A complete data line whose payload is not valid JSON.
IsMalformed(line) ==
  /\ StartsWith(line, <<"data: ">>)
  /\ SubSeq(line, 2, Len(line)) # <<"[DONE]">>
  /\ ~JsonParse(SubSeq(line, 2, Len(line))).ok

\* The body without its complete malformed data lines.
WithoutMalformed(b) ==
  LET lines == Split(b)
  IN Terminated(SelectSeq(Front(lines), LAMBDA l : ~IsMalformed(l))) \o Last(lines)

HasMalformed(b) == \E i \in 1..(Len(Split(b)) - 1) : IsMalformed(Split(b)[i])

\* C18: a complete data line that is not valid JSON produces no frame and
\* does not end the stream: when the body has ended the frames emitted are
\* those of the body without that line, so every delta before and after it
\* is there, in order, and the done frame carries the text of all of them;
\* a client that stayed connected has received them all.
C18_MalformedLineDropped ==
  \A r \in Reqs :
    (upOutcome[r] = "eof" /\ HasMalformed(upBody[r])) =>
      LET clean == DecodeChunk(<<>>, <<>>, WithoutMalformed(upBody[r]))
      IN /\ emitted[r] = clean.out \o <<DoneFrame(clean.fullText)>>
         /\ (Closed(r) /\ ~clientGone[r]) => Received(r) = emitted[r]

\* A malformed line between two delta lines: both deltas and the done frame
\* with the text of both were received.
C18_Witness ==
  /\ Closed("r1")
  /\ upBody["r1"] =
       Terminated(<<DeltaLine(<<"a">>), MalformedLine, DeltaLine(<<"b", "\n">>)>>)
  /\ Received("r1") = << DeltaFrame(<<"a">>), DeltaFrame(<<"b", "\n">>),
                         DoneFrame(<<"a", "b", "\n">>) >>

\* The upstream's part in the error frames: a fault or a non-success status.
UpstreamFailed(r) ==
  upOutcome[r] \in {"fetch_fault", "status_body", "status_fault", "read_fault"}

\* C19: when the append of the assistant message fails, the response stays
\* the 200 stream, no error frame appears that the upstream did not cause,
\* and once the output is closed to a client that stayed connected the
\* decoder has ended, nothing is left unread and the client has received
\* every frame the decoder produced.
C19_StoreFailureContained ==
  \A r \in Reqs :
    (Streamed(r) /\ dbFault[r]) =>
      /\ resp[r] = StreamResponse
      /\ Indices(emitted[r], "error") # {} => UpstreamFailed(r)
      /\ (Closed(r) /\ ~clientGone[r]) =>
           /\ spc[r] = "closed"
           /\ queue[r] = <<>>
           /\ Received(r) = emitted[r]

\* The append failed for a done frame, a later frame was still relayed, and
\* no assistant row exists.
C19_Witness ==
  /\ Closed("r1")
  /\ dbFault["r1"]
  /\ ~clientGone["r1"]
  /\ OwnRows("r1", "assistant") = {}
  /\ Cardinality(Indices(Received("r1"), "done")) = 2
  /\ Received("r1") = emitted["r1"]

\* C20: a write to a client that disconnected fails and closes the output;
\* from the failing write on, no further token of the upstream body is read
\* for the request and the request appends no message row.
C20_DisconnectStopsRequest ==
  [][\A r \in Reqs :
       /\ (rpc[r] = "write" /\ clientGone[r]) =>
            /\ rpc'[r] \in {"write", "closed"}
            /\ wrote'[r] = wrote[r]
       /\ (Closed(r) /\ clientGone[r]) =>
            /\ rpc'[r] = "closed"
            /\ upos'[r] = upos[r]
            /\ wrote'[r] = wrote[r]]_vars

\* C21: the frames held between the decoder and the client write stay
\* bounded: the decoder reads further upstream bytes only while fewer
\* frames than the stream's high-water mark wait to be taken by the relay,
\* so a client that accepts writes slowly holds the decoder back.
C21_ReadsPacedByClient ==
  [][\A r \in Reqs :
       upos'[r] > upos[r] => Len(queue[r]) < HighWaterMark]_vars

\* The upstream answered with a non-success status or a fault occurred.
UpstreamFailure(r) ==
  upOutcome[r] \in {"fetch_fault", "status", "status_body", "status_fault",
                    "read_fault"}

\* C22: a request issues at most one upstream request; after an upstream
\* failure it issues no further one, and once the wait for the upstream's
\* answer is over the request never waits for it again.
C22_SingleUpstreamAttempt ==
  [][\A r \in Reqs :
       /\ calls'[r] <= 1
       /\ UpstreamFailure(r) => (calls'[r] = calls[r] /\ spc'[r] # "fetch")
       /\ spc[r] \notin {"none", "fetch"} => spc'[r] # "fetch"]_vars

\* Both kinds of failure were followed to the end with a single call: a
\* fault of the fetch, seen by the client as the only frame.
C22_Witness ==
  /\ Closed("r1")
  /\ upOutcome["r1"] = "fetch_fault"
  /\ calls["r1"] = 1
  /\ Received("r1") = <<ErrorFrame(FaultMessage)>>

\* C23: in every message list built for the upstream only the last element
\* carries the image of the request; every earlier element is plain text,
\* and the user row the request stored has the columns of a message row and
\* the trimmed text as content, so the image of one turn is in no later
\* list.
C23_ImageOnlyOnNewTurn ==
  \A r \in Reqs :
    /\ \A i \in 1..(Len(upMessages[r]) - 1) : upMessages[r][i].image = NoImage
    /\ upMessages[r] # <<>> => Last(upMessages[r]).image = body[r].imageData
    /\ \A i \in OwnRows(r, "user") :
         /\ DOMAIN messages[i] = {"id", "conversation_id", "role", "content"}
         /\ messages[i].content = Trim(body[r].content.s)

\* The turn that came with an image is replayed to the later request as
\* plain text.
C23_Witness ==
  /\ upMessages["r1"] # <<>>
  /\ Last(upMessages["r1"]).image = "image/png"
  /\ Len(upMessages["r2"]) >= 2
  /\ \E i \in 1..(Len(upMessages["r2"]) - 1) :
       /\ upMessages["r2"][i].role = "user"
       /\ upMessages["r2"][i].content = Trim(body["r1"].content.s)
       /\ upMessages["r2"][i].image = NoImage

\* The frames of a sequence of chunks, as the browser parses them.
FramesOf(chunks) ==
  Concat([i \in 1..Len(chunks) |-> EventsOf(Split(chunks[i]))])

\* The chunks on their way to the client: the one being written and those
\* waiting in the stream's queue.
InFlight(r) == (IF rpc[r] = "write" THEN <<cur[r]>> ELSE <<>>) \o queue[r]

\* C26: the streaming response is returned before the upstream has
\* answered, every frame the decoder produced has been delivered or is on
\* its way to the client, and the write of a frame the relay holds is
\* possible at once for a connected client, whether or not a terminal frame
\* has been produced.
C26_FramesWrittenAsDecoded ==
  \A r \in Reqs :
    /\ spc[r] = "fetch" => resp[r] = StreamResponse
    /\ rpc[r] \in {"read", "write", "store"} =>
         emitted[r] = FramesOf(delivered[r] \o InFlight(r))
    /\ (rpc[r] = "write" /\ ~clientGone[r]) => ENABLED RelayWrite(r)

\* The client has a delta while the stop signal of the body is still unread
\* and no terminal frame exists.
C26_Witness ==
  /\ Indices(Received("r1"), "delta") # {}
  /\ Terminals(emitted["r1"]) = {}
  /\ StopSignals(upBody["r1"]) = 1
  /\ upos["r1"] < Len(upBody["r1"])
  /\ spc["r1"] = "read"

\* Request r appends an assistant row in this step.
AppendsAssistantRow(r) ==
  /\ Len(messages') = Len(messages) + 1
  /\ Last(messages').role = "assistant"
  /\ Last(messages').id \in wrote'[r] \ wrote[r]

\* C27: while an append of the relay is pending, the chunk holding its done
\* frame is the last chunk written to the client; an assistant row is
\* appended only from that state and holds the text of a done frame the
\* client already received; and until the append has completed or failed
\* the relay takes no further chunk from the stream.
C27_WriteThenStoreThenRead ==
  [][\A r \in Reqs :
       /\ rpc[r] = "store" =>
            /\ delivered[r] # <<>>
            /\ Last(delivered[r]) = cur[r]
            /\ pending[r] # <<>>
            /\ \E i \in Indices(Received(r), "done") :
                 Received(r)[i].text = Head(pending[r])
            /\ cur'[r] = cur[r]
            /\ delivered'[r] = delivered[r]
            /\ Len(queue'[r]) >= Len(queue[r])
            /\ rpc'[r] \in {"store", "read"}
       /\ AppendsAssistantRow(r) =>
            /\ rpc[r] = "store"
            /\ Last(messages').content = Head(pending[r])]_vars

\* An append is pending while the next frame waits in the stream's queue.
C27_Witness ==
  /\ rpc["r1"] = "store"
  /\ queue["r1"] # <<>>
  /\ Last(delivered["r1"]) = cur["r1"]
  /\ OwnRows("r1", "assistant") = {}

\* C28: every chat request that started streaming eventually has its output
\* closed, provided the upstream answers and its body ends or fails: on the
\* done path, the error path and the path of a failed client write.
C28_EventuallyClosed ==
  \A r \in Reqs : Streamed(r) ~> Closed(r)

\* The output was closed by a failed write: the client is gone and frames
\* the decoder produced never reached it.
C28_Witness ==
  /\ Closed("r1")
  /\ clientGone["r1"]
  /\ spc["r1"] = "closed"
  /\ Len(Received("r1")) < Len(emitted["r1"])

\* C30: a done frame whose fullText is empty causes no append: the relay
\* never has an empty text pending for storage, no assistant row of the
\* request is empty, and while the decoder has accumulated no text the
\* request owns no assistant row, so that it ends with its user row alone.
C30_EmptyDoneStoresNothing ==
  \A r \in Reqs :
    Streamed(r) =>
      /\ \A i \in 1..Len(pending[r]) : pending[r][i] # <<>>
      /\ \A i \in OwnRows(r, "assistant") : messages[i].content # <<>>
      /\ fullText[r] = <<>> =>
           /\ pending[r] = <<>>
           /\ OwnRows(r, "assistant") = {}
           /\ Cardinality(OwnRows(r, "user")) = 1

\* The client received a done frame of empty text, the output is closed,
\* and the request's only row is its user row.
C30_Witness ==
  /\ Closed("r1")
  /\ spc["r1"] = "closed"
  /\ \E i \in 1..Len(Received("r1")) :
       Received("r1")[i].type = "done" /\ Received("r1")[i].text = <<>>
  /\ OwnRows("r1", "assistant") = {}
  /\ Cardinality(OwnRows("r1", "user")) = 1

\* An await of start() in streamChatResponse rejected.
Thrown(r) == upOutcome[r] \in {"fetch_fault", "status_fault", "read_fault"}

HasErrorFrame(frames) == \E i \in 1..Len(frames) : frames[i].type = "error"

\* The output of r is closed by this step.
Closes(r) == rpc[r] # "closed" /\ rpc'[r] = "closed"

\* The write of the relay loop rejects and the loop ends.
WriteFault(r) == rpc[r] = "write" /\ clientGone[r] /\ Closes(r)

\* C29 as stated: whenever the output is closed after a fault in the
\* upstream fetch, in reading the upstream body or in the relay loop, the
\* client has been sent an error frame.
C29_FaultSendsErrorFrame ==
  [][\A r \in Reqs :
       (Closes(r) /\ (Thrown(r) \/ WriteFault(r))) =>
         HasErrorFrame(Received(r))']_vars

\* C29 amended: a fault in the upstream fetch or in reading the upstream
\* body enqueues an error frame as the stream's last frame and closes the
\* stream, and a client that is still connected when the output is closed
\* has received that frame last; a fault in the relay loop (a failed write
\* to the client) closes the output without sending any frame, and nothing
\* is sent once the output is closed.
C29_ErrorFrameUnlessWriteFails ==
  [][\A r \in Reqs :
       /\ (~Thrown(r) /\ Thrown(r)') =>
            /\ emitted'[r] = Append(emitted[r], ErrorFrame(FaultMessage))
            /\ spc'[r] = "closed"
       /\ (Closes(r) /\ Thrown(r) /\ ~clientGone[r]) =>
            /\ Received(r) # <<>>
            /\ Last(Received(r)) = ErrorFrame(FaultMessage)
       /\ WriteFault(r) => delivered'[r] = delivered[r]
       /\ Closed(r) => delivered'[r] = delivered[r]]_vars

\* Reading the upstream body failed and its error frame was enqueued, but
\* the write to the client failed: the output is closed and the client
\* received no error frame.
C29_Witness ==
  /\ Closed("r1")
  /\ clientGone["r1"]
  /\ upOutcome["r1"] = "read_fault"
  /\ HasErrorFrame(emitted["r1"])
  /\ ~HasErrorFrame(Received("r1"))

\* The request asks for a protected handler: a protected path with the
\* method its route is matched with.
TargetsProtected(r) ==
  route[r] \in ProtectedRoutes /\ method[r] = MethodOf(route[r])

\* The router answers the request itself in this step.
RouterAnswers(r) == pc[r] \in {"entry", "session"} /\ resp'[r] # resp[r]

\* The router calls a handler for the request in this step.
Dispatches(r) == handler[r] = "none" /\ handler'[r] # "none"

\* The Origin header is present and not in the allowlist.
ForeignOrigin(r) ==
  /\ origin[r] # ""
  /\ origin[r] # LocalOrigin
  /\ (webauthnOrigin = "" \/ origin[r] # webauthnOrigin)

\* A protected handler is called only for a request whose cookie names a
\* stored session, and with that session's user; a request no handler was
\* called for changes neither the tables nor the session store, and only
\* steps of requests a protected handler was called for change them.
OnlySessionsReachHandlers ==
  \A r \in Reqs :
    /\ (Dispatches(r) /\ handler'[r] \in ProtectedRoutes) =>
         /\ HasSession(cookie[r])
         /\ user'[r] = sessions[cookie[r]]
    /\ (pc'[r] # pc[r] /\ handler'[r] = "none") =>
         UNCHANGED <<dbVars, sessions>>
    /\ (dbVars' # dbVars \/ sessions' # sessions) =>
         \E q \in Reqs : /\ handler[q] \in ProtectedRoutes
                         /\ (pc'[q] # pc[q] \/ rpc'[q] # rpc[q])

\* C24 as stated: no protected handler runs for a request whose cookie
\* names no stored session, such a request changes no storage, and the
\* router answers it with 401.
C24_NoSessionGets401 ==
  [][/\ OnlySessionsReachHandlers
     /\ \A r \in Reqs :
          (RouterAnswers(r) /\ TargetsProtected(r) /\ ~HasSession(cookie[r])) =>
            resp'[r] = JsonError(401, "Unauthorized")]_vars

\* C24 amended: no protected handler runs for a request whose cookie names
\* no stored session when the router looks it up, and such a request
\* changes no storage; the router answers it with 401, except that a
\* request with a method other than GET or OPTIONS whose Origin header is
\* present and not allowed is answered with 403 before the session is
\* looked up.
C24_NoSessionNoHandler ==
  [][/\ OnlySessionsReachHandlers
     /\ \A r \in Reqs :
          (RouterAnswers(r) /\ TargetsProtected(r) /\ ~HasSession(cookie[r])) =>
            resp'[r] = IF Mutating(method[r]) /\ ForeignOrigin(r)
                       THEN JsonError(403, "Forbidden")
                       ELSE JsonError(401, "Unauthorized")]_vars

\* A chat message whose session was destroyed by a logout before the
\* router looked it up: answered with 401, no handler called.
C24_Witness ==
  /\ route["r1"] = "message"
  /\ method["r1"] = "POST"
  /\ cookie["r1"] = "t1"
  /\ "t1" \notin DOMAIN sessions
  /\ handler["r1"] = "none"
  /\ resp["r1"] = JsonError(401, "Unauthorized")
  /\ conversations = {} /\ messages = <<>>

\* A mutating request reaches a handler only with an acceptable Origin
\* (allowed, or missing on a public route), and one whose Origin is present
\* and not allowed is answered with 403.
OnlyAcceptableOrigins ==
  \A r \in Reqs :
    Mutating(method[r]) =>
      /\ Dispatches(r) =>
           /\ ~ForeignOrigin(r)
           /\ handler'[r] \in ProtectedRoutes => origin[r] # ""
      /\ (pc[r] = "entry" /\ pc'[r] # "entry" /\ ForeignOrigin(r)) =>
           /\ resp'[r] = JsonError(403, "Forbidden")
           /\ handler'[r] = "none"

\* The request is not for one of the public routes.
BehindSession(r) == ~(method[r] = "POST" /\ route[r] \in PublicPosts)

\* C25 as stated: a mutating request reaches a handler only with an
\* acceptable Origin; a present Origin that is not allowed yields 403 on
\* any route, and a missing Origin yields 403 on the routes behind the
\* session check.
C25_MissingOriginGets403 ==
  [][/\ OnlyAcceptableOrigins
     /\ \A r \in Reqs :
          (Mutating(method[r]) /\ BehindSession(r) /\ origin[r] = ""
             /\ RouterAnswers(r)) =>
            resp'[r] = JsonError(403, "Forbidden")]_vars

\* C25 amended: a mutating request reaches a handler only with an
\* acceptable Origin; a present Origin that is not allowed yields 403 on
\* any route before any handler runs; on the routes behind the session
\* check a missing Origin yields 403 when the request carries a stored
\* session, and 401 when it does not, the session being checked first.
C25_OriginGuardsHandlers ==
  [][/\ OnlyAcceptableOrigins
     /\ \A r \in Reqs :
          (Mutating(method[r]) /\ BehindSession(r) /\ origin[r] = ""
             /\ RouterAnswers(r)) =>
            resp'[r] = IF HasSession(cookie[r])
                       THEN JsonError(403, "Forbidden")
                       ELSE JsonError(401, "Unauthorized")]_vars

\* A chat message with a stored session and no Origin header: answered with
\* 403, no handler called.
C25_Witness ==
  /\ route["r1"] = "message"
  /\ method["r1"] = "POST"
  /\ origin["r1"] = ""
  /\ cookie["r1"] = "t2"
  /\ handler["r1"] = "none"
  /\ resp["r1"] = JsonError(403, "Forbidden")

\* The texts of the non-empty content deltas among events, in order.
DeltaTexts(evs, ty) ==
  LET sel == SelectSeq(evs, LAMBDA e : e.type = ty /\ e.text # <<>>)
  IN [i \in 1..Len(sel) |-> sel[i].text]

\* The body's last line has no terminating line feed.
Unterminated(b) == Last(Split(b)) # <<>>

\* C40: when the upstream body has ended with a last line that has no
\* terminating line feed, that line is still in the decoder's buffer and
\* was never decoded: the delta frames emitted are those of the complete
\* lines alone, and the final done frame carries their text and nothing of
\* the last line.
C40_UnterminatedLineDiscarded ==
  \A r \in Reqs :
    (upOutcome[r] = "eof" /\ Unterminated(upBody[r])) =>
      LET texts == DeltaTexts(UpstreamEvents(upBody[r]), "content_block_delta")
      IN /\ buffer[r] = Last(Split(upBody[r]))
         /\ DeltaTexts(emitted[r], "delta") = texts
         /\ Last(emitted[r]) = DoneFrame(Concat(texts))
         /\ fullText[r] = Concat(texts)

\* The body is one complete delta line and one unterminated delta line:
\* one delta frame was emitted and the done frame holds its text alone.
C40_Witness ==
  /\ upOutcome["r1"] = "eof"
  /\ upBody["r1"] = Terminated(<<DeltaLine(<<"a">>)>>) \o DeltaLine(<<"a">>)
  /\ buffer["r1"] = DeltaLine(<<"a">>)
  /\ emitted["r1"] = <<DeltaFrame(<<"a">>), DoneFrame(<<"a">>)>>

\* s is a prefix of t.
IsPrefix(s, t) == Len(s) <= Len(t) /\ s = SubSeq(t, 1, Len(s))

\* The characters of a text.
Chars(t) == {t[i] : i \in 1..Len(t)}

\* The characters the upstream of r sends as content.
OwnChars(r) ==
  Chars(Concat(DeltaTexts(UpstreamEvents(upBody[r]), "content_block_delta")))

\* C31: while two chat requests stream, the decoder state of each (buffer
\* and accumulator) and every frame emitted for it and delivered to its
\* client are those of its own upstream bytes: the buffer is the unfinished
\* line of the bytes read so far, the delta frames are a prefix of the
\* deltas of its own body, the accumulator and every done frame carry the
\* text of its own deltas, and no frame holds a character of the other
\* request's reply.
C31_StreamsDoNotMix ==
  \A r \in Reqs :
    Streamed(r) =>
      LET own == DeltaTexts(UpstreamEvents(upBody[r]), "content_block_delta")
          fr == emitted[r]
          ds == DeltaTexts(fr, "delta")
      IN /\ IsPrefix(ds, own)
         /\ fullText[r] = Concat(ds)
         /\ buffer[r] = Last(Split(SubSeq(upBody[r], 1, upos[r])))
         /\ \A i \in 1..Len(fr) :
              /\ fr[i].type = "done" => fr[i].text = DeltasBefore(fr, i)
              /\ fr[i].type \in {"delta", "done"} =>
                   Chars(fr[i].text) \subseteq OwnChars(r)
         /\ IsPrefix(Received(r), fr)

\* Both requests are reading their upstream at the same time, each having
\* accumulated its own reply.
C31_Witness ==
  /\ spc["r1"] = "read" /\ spc["r2"] = "read"
  /\ fullText["r1"] = <<"a">>
  /\ fullText["r2"] = <<"b", "\n">>
  /\ Received("r1") = <<DeltaFrame(<<"a">>)>>
  /\ Received("r2") = <<DeltaFrame(<<"b", "\n">>)>>

\* C37: an assistant row of a request is appended to the conversation the
\* request put its user message in, whose user row is stored at that time
\* with a smaller id, whatever new conversation the user started meanwhile;
\* all rows a request wrote are in one conversation.
C37_ReplyJoinsItsQuestion ==
  [][\A r \in Reqs :
       /\ AppendsAssistantRow(r) =>
            /\ Last(messages').conversation_id = conv[r]
            /\ \E i \in OwnRows(r, "user") :
                 /\ messages[i].conversation_id = conv[r]
                 /\ messages[i].id < Last(messages').id
       /\ \A i, j \in 1..Len(messages') :
            (messages'[i].id \in wrote'[r] /\ messages'[j].id \in wrote'[r]) =>
              messages'[i].conversation_id = messages'[j].conversation_id]_vars

\* The user's new-conversation request has answered and deactivated the
\* conversation of r1 while the reply of r1 is being stored: the pending
\* append goes to that deactivated conversation.
C37_Witness ==
  /\ route["r1"] = "message" /\ route["r2"] = "new"
  /\ user["r2"] = "u1"
  /\ resp["r2"] = JsonOk
  /\ rpc["r1"] = "store"
  /\ \E c \in conversations : c.id = conv["r1"] /\ ~c.is_active
  /\ \E d \in conversations : d.id \in created["r2"] /\ d.is_active /\ d.id > conv["r1"]
  /\ OwnRows("r1", "user") # {}

\* The text of the request's new user message.
OwnText(r) == Trim(body[r].content.s)

\* The number of user turns of a message list that carry the text c.
UserTurns(ms, c) ==
  Cardinality({i \in 1..Len(ms) : ms[i].role = "user" /\ ms[i].content = c})

\* C38: the message list a request sends upstream holds the request's own
\* new user message exactly once, and every message of the other request
\* that the history read returned is in it.
C38_OwnTurnOnceOtherKept ==
  \A r \in Reqs :
    calls[r] > 0 =>
      /\ UserTurns(upMessages[r], OwnText(r)) = 1
      /\ \A q \in Reqs \ {r} :
           OwnText(q) # OwnText(r) =>
             UserTurns(upMessages[r], OwnText(q))
               >= UserTurns(fetchedHistory[r], OwnText(q))

\* The conversation rows of user u, and the message rows in them.
ConversationsOf(u) == {c \in conversations : c.user_id = u}
MessagesOf(u) ==
  SelectSeq(messages,
            LAMBDA m : \E c \in ConversationsOf(u) : c.id = m.conversation_id)

\* The step is one of request r: its handler or its relay moves.
StepOf(r) == pc'[r] # pc[r] \/ rpc'[r] # rpc[r]

\* C39: a step of a chat request (send message, history, new conversation,
\* clear) leaves the conversation rows and the message rows of every other
\* user as they are.
C39_OtherUsersRowsUntouched ==
  [][\A r \in Reqs :
       StepOf(r) =>
         \A u \in Users \ {user[r]} :
           /\ ConversationsOf(u)' = ConversationsOf(u)
           /\ MessagesOf(u)' = MessagesOf(u)]_vars

\* User u1 cleared their conversations: none of them is left, while the
\* conversation of u2 and the message in it are still there.
C39_Witness ==
  /\ route["r1"] = "clear"
  /\ resp["r1"] = JsonOk
  /\ user["r2"] = "u2"
  /\ ConversationsOf("u1") = {}
  /\ ConversationsOf("u2") # {}
  /\ MessagesOf("u2") # <<>>
  /\ \A i \in 1..Len(messages) : messages[i].id # 1

\* A logout of the session under token t has completed.
LoggedOut(t) ==
  \E q \in Reqs : /\ handler[q] = "logout"
                  /\ cookie[q] = t
                  /\ pc[q] = "done"
                  /\ resp[q] = JsonOk

Counters == {<<c.credential_id, c.counter>> : c \in credentials}

\* Request r presents a credential stored for the user id it names, with a
\* genuine assertion of the challenge issued under the challenge id it names.
OwnsPresented(r) ==
  \E c \in credentials : /\ c.credential_id = authBody[r].response.id
                         /\ c.user_id = authBody[r].userId
AssertsIssued(r) ==
  /\ authBody[r].response.given
  /\ authBody[r].response.genuine
  /\ authBody[r].challengeId \in DOMAIN IssuedChallenges
  /\ authBody[r].response.challenge =
       IssuedChallenges[authBody[r].challengeId].challenge

\* C34: a login verification creates a session only for the user who owns
\* the presented credential and only when the assertion verifies against
\* the stored challenge; when the credential is unknown or belongs to
\* another user id, the challenge is missing or verification fails, the
\* request creates no session and changes no credential counter.
C34_SessionOnlyForVerifiedOwner ==
  [][\A r \in Reqs :
       route[r] = "login/verify" =>
         /\ NewToken(r) \in DOMAIN sessions' =>
              /\ OwnsPresented(r)
              /\ AssertsIssued(r)
              /\ sessions'[NewToken(r)] = authBody[r].userId
         /\ (pc'[r] # pc[r] /\ Counters' # Counters) =>
              OwnsPresented(r) /\ AssertsIssued(r)]_vars

\* ann logged in with her passkey k1: the session is hers and the counter
\* of k1 was advanced; bob's request, presenting ann's credential under his
\* own user id, was answered 400.
C34_Witness ==
  /\ route["r1"] = "login/verify" /\ route["r2"] = "login/verify"
  /\ pc["r1"] = "done"
  /\ resp["r1"] = SessionResponse("u1", "n1")
  /\ "n1" \in DOMAIN sessions /\ sessions["n1"] = "u1"
  /\ CredRow("u1", "k1", 2) \in credentials
  /\ authBody["r2"].response.id = "k1" /\ authBody["r2"].userId = "u2"
  /\ pc["r2"] = "done"
  /\ resp["r2"] = JsonError(400, "Credential not found")
  /\ "n2" \notin DOMAIN sessions

\* Request r is a verification that ended with the session cookie.
Succeeded(r) ==
  /\ route[r] \in {"register/verify", "login/verify"}
  /\ pc[r] = "done"
  /\ resp[r].status = 200

\* C35: a challenge id is used up by verification: of two verifications
\* naming the same challenge id, one after the other or concurrent, at most
\* one succeeds.
C35_ChallengeUsedOnce ==
  \A r, q \in Reqs :
    (r # q /\ Succeeded(r) /\ Succeeded(q)) =>
      authBody[r].challengeId # authBody[q].challengeId

\* Request r is a registration verification that has ended.
RegistrationEnded(r) == route[r] = "register/verify" /\ pc[r] = "done"

\* C36: registration is all-or-nothing: once handleRegisterVerify has ended,
\* with success or with a failure at any step, every stored user has at
\* least one credential.
C36_UserHasCredential ==
  (\A r \in Reqs : route[r] = "register/verify" => RegistrationEnded(r)) =>
    \A u \in users : \E c \in credentials : c.user_id = u.id

\* The client of r got a done frame and then the end of the body.
CompletedWithDone(r) ==
  /\ Streamed(r)
  /\ Closed(r)
  /\ ~clientGone[r]
  /\ Indices(Received(r), "done") # {}

\* C33: on the client, a send that completes with done moves the streamed
\* reply into the messages list exactly once: after the stream ended,
\* exactly one assistant message has been added for the send and
\* streamingContent is null.
C33_ReplyAddedOnce ==
  \A r \in Reqs :
    CompletedWithDone(r) =>
      /\ Len(ChatView(delivered[r]).added) = 1
      /\ ChatView(delivered[r]).streamingContent = Null

====
